---------------------------- MODULE Spec2Model ----------------------------
(***************************************************************************)
(* HayCash ToolBox: the CSF/CFDI extractor (apps/cdf_isaac/app_isaac.py).  *)
(*                                                                         *)
(* Python strings are modelled as sequences of one-character strings, so   *)
(* that length tests, slicing, case folding, concatenation and character   *)
(* classes are computed as the code computes them.  Python's None is the   *)
(* one-element sequence None, which no string equals.                      *)
(***************************************************************************)
EXTENDS Integers, Sequences, FiniteSets, TLC

VARIABLES
    pc,                  \* position of the script / of the current run
    today_yy,            \* int(date.today().strftime("%y")), read by infer_century
    doc,                 \* the text handed to a parser
    parsed,              \* what the parser returned: [tipo, row], or None
    USE_OPENAI,          \* bool(os.getenv("OPENAI_API_KEY", ""))
    catalogs,            \* load_sat_catalogs(): pf, pm and whether their embeddings loaded
    INDUSTRY_SAT_CACHE,  \* the module-level dict of app_isaac.py
    last,                \* the last matcher call: its arguments and what it gave
    use_ocr,             \* the "Usar OCR" checkbox
    files,               \* files_df: the documents of the batch, in order
    fis_rows,            \* the list of records of natural persons
    mor_rows,            \* the list of records of legal entities
    results,             \* per document handled so far: res, the first res, the calls made
    session_fisica,      \* st.session_state.fisica
    session_moral,       \* st.session_state.moral
    sat,                 \* the industry_SAT column add_industry_sat is building
    contract,            \* lector_contrato: the normalised text of a contract
    found,               \* lector_contrato: the last extractor call and what it gave
    applied,             \* a function called on its own: its name, its argument, what it gave
    report,              \* factoraje: the target RFC, the source, the invoices, h, the provider rows
    xmls,                \* factoraje: a run of download_xmls_parallel: its tasks, the lock, out
    _api_mon,            \* factoraje: the module-level dict _api_mon
    bbva,                \* diegobbva: a call of generate_bbva_file and the file it wrote
    reviews,             \* analisis_leads: the reviewed store as CSV file and as table, the last call
    page,                \* analisis_leads: one run of the page: the snapshot, the catalogue, the view
    sessions,            \* analisis_leads: the table and the sessions marking leads in it
    auth,                \* simple_auth: the session state of a browser session and what it ran
    paging               \* factoraje: a paged listing: the pages of the service, the requests made

None == <<"<None>">>

UpperLetters ==
    <<"A","B","C","D","E","F","G","H","I","J","K","L","M","N","O","P","Q",
      "R","S","T","U","V","W","X","Y","Z","Ñ","Á","É","Í","Ó","Ú","Ü">>
LowerLetters ==
    <<"a","b","c","d","e","f","g","h","i","j","k","l","m","n","o","p","q",
      "r","s","t","u","v","w","x","y","z","ñ","á","é","í","ó","ú","ü">>
DigitChars == <<"0","1","2","3","4","5","6","7","8","9">>

Range(f) == {f[k] : k \in DOMAIN f}

AsciiUpper == {UpperLetters[k] : k \in 1..26}
AsciiLower == {LowerLetters[k] : k \in 1..26}
Digits == Range(DigitChars)
AsciiAlnum == AsciiUpper \cup AsciiLower \cup Digits
Whitespace == {" ", "\n", "\t"}

\* f itself, with every value computed once (f @@ <<>> is f)
Computed(f) == f @@ <<>>

\* str.upper() / str.lower(), character by character
UpperOf ==
    Computed([c \in Range(LowerLetters) |->
                UpperLetters[CHOOSE k \in DOMAIN LowerLetters : LowerLetters[k] = c]])
LowerOf ==
    Computed([c \in Range(UpperLetters) |->
                LowerLetters[CHOOSE k \in DOMAIN UpperLetters : UpperLetters[k] = c]])
UpperChar(c) == IF c \in DOMAIN UpperOf THEN UpperOf[c] ELSE c
LowerChar(c) == IF c \in DOMAIN LowerOf THEN LowerOf[c] ELSE c
ToUpper(s) == [k \in 1..Len(s) |-> UpperChar(s[k])]
ToLower(s) == [k \in 1..Len(s) |-> LowerChar(s[k])]

Min(a, b) == IF a <= b THEN a ELSE b
Max(a, b) == IF a >= b THEN a ELSE b

\* Python's s[a:b], 0-based, clipped to the string
Slice(s, a, b) == SubSeq(s, a + 1, Min(b, Len(s)))

DigitVal(c) == (CHOOSE k \in DOMAIN DigitChars : DigitChars[k] = c) - 1
AllDigits(s) == \A k \in 1..Len(s) : s[k] \in Digits
\* int(s) for a non-empty ASCII alphanumeric slice: a value, or None when int() raises
RECURSIVE IntOfDigits(_)
IntOfDigits(s) ==
    IF Len(s) = 0 THEN 0
    ELSE 10 * IntOfDigits(SubSeq(s, 1, Len(s) - 1)) + DigitVal(s[Len(s)])
\* f"{n:0wd}"
RECURSIVE ZeroPad(_, _)
ZeroPad(n, w) ==
    IF w <= 1 /\ n < 10 THEN <<DigitChars[n + 1]>>
    ELSE ZeroPad(n \div 10, w - 1) \o <<DigitChars[(n % 10) + 1]>>

TARGET_COLS ==
    <<"Nombres","last_name","second_last_name","birthday_at","RFC","curp","nationality",
      "industry","industry_SAT",
      "codigo_postal","province","municipality","neighborhood",
      "nombre_vialidad","numero_exterior","numero_interior",
      "clave_pais","contact_phone","contact_email","created_at">>
TargetColSet == Range(TARGET_COLS)

empty_row_vec == [k \in TargetColSet |-> None]

coalesce(a, b) == IF a # None THEN a ELSE b

\* a slip that tests for None only
not_none(x) == x # None

\* x is a str or None here; pd.isna of a str is False
safe_nzchar(x) == x # None /\ Len(x) > 0

\* re.sub(r"\s{2,}", " ", x).strip()
RECURSIVE CollapseWs(_)
CollapseWs(s) ==
    IF Len(s) < 2 THEN s
    ELSE IF s[1] \in Whitespace /\ s[2] \in Whitespace
         THEN LET rest == CollapseWs(Tail(s))
              IN  <<" ">> \o Tail(rest)
         ELSE <<s[1]>> \o CollapseWs(Tail(s))
RECURSIVE LStrip(_)
LStrip(s) == IF Len(s) > 0 /\ s[1] \in Whitespace THEN LStrip(Tail(s)) ELSE s
RECURSIVE RStrip(_)
RStrip(s) ==
    IF Len(s) > 0 /\ s[Len(s)] \in Whitespace THEN RStrip(SubSeq(s, 1, Len(s) - 1)) ELSE s
Strip(s) == LStrip(RStrip(s))
s_trim(x) == IF x = None THEN x ELSE Strip(CollapseWs(x))

\* re.sub(r"[^A-Za-z0-9]", "", s)
StripNonAlnum(s) == SelectSeq(s, LAMBDA c : c \in AsciiAlnum)
OrEmpty(x) == IF x = None THEN <<>> ELSE x


(***************************************************************************)
(* Field extraction.  A document text is modelled by what the parsers'     *)
(* regular expressions find in it: for the RFC, the characters that follow *)
(* the "RFC" label (the pattern itself is matched below); for the other    *)
(* fields, the captured group (None when the pattern does not match),      *)
(* after the label-noise cuts.                                             *)
(***************************************************************************)
TextFields ==
    {"rfc_at", "curp", "nombres", "ap1", "ap2", "full_rs", "full_rs_exact",
     "fecha", "cp", "vial", "numext", "raw_int", "ent", "mun", "col",
     "email", "phone", "industry"}

BlankText == [f \in TextFields |-> None] @@ [csf_kw |-> FALSE, cfdi_kw |-> FALSE]

\* [A-ZÑ&] and [A-Z0-9] under re.IGNORECASE
RfcHeadClass == AsciiUpper \cup AsciiLower \cup {"Ñ", "ñ", "&"}
RfcTailClass == AsciiAlnum

\* group 1 of [A-ZÑ&]{3,4}\d{6}[A-Z0-9]{2,3} matched at the start of s (greedy, with
\* backtracking), or None
MatchRfcPattern(s) ==
    LET fits(nL, nS) ==
            /\ Len(s) >= nL + 6 + nS
            /\ \A k \in 1..nL : s[k] \in RfcHeadClass
            /\ \A k \in (nL + 1)..(nL + 6) : s[k] \in Digits
            /\ \A k \in (nL + 7)..(nL + 6 + nS) : s[k] \in RfcTailClass
    IN  IF s = None THEN None
        ELSE IF fits(4, 3) THEN SubSeq(s, 1, 13)
        ELSE IF fits(4, 2) THEN SubSeq(s, 1, 12)
        ELSE IF fits(3, 3) THEN SubSeq(s, 1, 12)
        ELSE IF fits(3, 2) THEN SubSeq(s, 1, 11)
        ELSE None

Fisica == <<"f","i","s","i","c","a">>
Moral == <<"m","o","r","a","l">>

tipo_persona_from_rfc(rfc) ==
    LET of(r) == IF Len(r) = 12 THEN Moral
                 ELSE IF Len(r) = 13 THEN Fisica
                 ELSE None
    IN  of(StripNonAlnum(OrEmpty(rfc)))

Desconocido == <<"d","e","s","c","o","n","o","c","i","d","o">>
Mexicana == <<"m","e","x","i","c","a","n","a">>
MX == <<"M","X">>

\* Python's None where the code expects an int
NoInt == -1

\* a slip at the boundary: the current year itself is sent to the 1900s
infer_century_before(yy, cur) ==
    IF Len(yy) = 0 \/ ~AllDigits(yy) THEN NoInt
    ELSE LET y == IntOfDigits(yy)
         IN  IF y < cur THEN 2000 + y ELSE 1900 + y

\* int(yy) compared with the current two-digit year; NoInt when int() raises
infer_century(yy, cur) ==
    IF Len(yy) = 0 \/ ~AllDigits(yy) THEN NoInt
    ELSE LET y == IntOfDigits(yy)
         IN  IF y <= cur THEN 2000 + y ELSE 1900 + y

FormatDate(yy, mm, dd) == ZeroPad(yy, 4) \o <<"-">> \o ZeroPad(mm, 2) \o <<"-">> \o ZeroPad(dd, 2)

\* the date held by characters 5 to 10 of r: yy, mm, dd
DateOfDigits(r, cur) ==
    LET dated(yy) ==
            IF ~AllDigits(Slice(r, 6, 10)) THEN None
            ELSE IF yy = NoInt THEN None
            ELSE FormatDate(yy, IntOfDigits(Slice(r, 6, 8)), IntOfDigits(Slice(r, 8, 10)))
    IN  dated(infer_century(Slice(r, 4, 6), cur))

birthday_from_rfc(rfc, cur) ==
    LET of(r) == IF Len(r) # 13 THEN None ELSE DateOfDigits(r, cur)
    IN  of(StripNonAlnum(OrEmpty(rfc)))

birthday_from_curp(curp, cur) ==
    LET of(c) == IF Len(c) < 10 THEN None ELSE DateOfDigits(c, cur)
    IN  of(StripNonAlnum(OrEmpty(curp)))

Put(row, k, v) == [row EXCEPT ![k] = v]
PutIf(row, k, v) == IF safe_nzchar(v) THEN [row EXCEPT ![k] = v] ELSE row
\* out[k] = str(v).upper() when v is found
PutUpper(row, k, v) == IF safe_nzchar(v) THEN [row EXCEPT ![k] = ToUpper(v)] ELSE row
\* dob = birthday_from_rfc(...); if not safe_nzchar(dob): dob = birthday_from_curp(...)
PutBirthday(row, cur) ==
    LET first(dob) == IF safe_nzchar(dob) THEN dob ELSE birthday_from_curp(row["curp"], cur)
    IN  PutIf(row, "birthday_at", first(birthday_from_rfc(row["RFC"], cur)))

\* The body of the try block of parse_csf_fields (lines 646-798)
CsfTryBody(text, cur) ==
    LET ids(o) ==
            PutUpper(PutUpper(o, "RFC", MatchRfcPattern(text.rfc_at)), "curp", text.curp)
        names(o) ==
            IF safe_nzchar(text.nombres)
            THEN PutIf(PutIf(Put(o, "Nombres", s_trim(text.nombres)),
                             "last_name", s_trim(text.ap1)),
                       "second_last_name", s_trim(text.ap2))
            ELSE IF safe_nzchar(text.full_rs)
                 THEN Put(o, "Nombres", s_trim(text.full_rs))
                 ELSE o
        street(o) ==
            PutIf(PutIf(PutIf(PutIf(o, "created_at", text.fecha), "codigo_postal", text.cp),
                        "nombre_vialidad", s_trim(text.vial)),
                  "numero_exterior", s_trim(text.numext))
        interior(o, ni) ==
            IF safe_nzchar(text.raw_int)
            THEN Put(o, "numero_interior", IF Len(ni) = 0 THEN None ELSE ni)
            ELSE o
        place(o) ==
            PutIf(PutIf(o, "municipality", s_trim(text.mun)), "neighborhood", s_trim(text.col))
        contact(o) ==
            [o EXCEPT !["nationality"] = Mexicana,
                      !["clave_pais"] = MX,
                      !["contact_email"] = coalesce(text.email, None),
                      !["contact_phone"] = coalesce(text.phone, None),
                      !["industry"] = text.industry,
                      !["industry_SAT"] = text.industry]
    IN  PutBirthday(contact(place(interior(street(names(ids(empty_row_vec))),
                                           s_trim(text.raw_int)))), cur)

parse_csf_fields(text, cur) ==
    LET shaped(out, tipo, name_raw) ==
            [tipo |-> tipo,
             row  |-> IF tipo = Moral
                      THEN [PutIf(out, "Nombres", s_trim(name_raw))
                                EXCEPT !["last_name"] = None, !["second_last_name"] = None]
                      ELSE IF tipo = Fisica
                           THEN [k \in TargetColSet |->
                                    IF k \in {"Nombres", "last_name", "second_last_name"}
                                       /\ safe_nzchar(out[k])
                                    THEN s_trim(out[k]) ELSE out[k]]
                           ELSE out]
        typed(out, tipo0) ==
            shaped(out,
                   IF tipo0 # None THEN tipo0
                   ELSE IF safe_nzchar(out["last_name"]) \/ safe_nzchar(out["second_last_name"])
                        THEN Fisica
                        ELSE IF safe_nzchar(out["Nombres"]) THEN Moral ELSE Desconocido,
                   IF safe_nzchar(text.full_rs_exact) THEN text.full_rs_exact ELSE text.full_rs)
        after_try(out) == typed(out, tipo_persona_from_rfc(out["RFC"]))
    IN  after_try(CsfTryBody(text, cur))

parse_cfdi_fields(text, cur) ==
    LET ids(o) ==
            PutIf(PutIf(PutUpper(o, "RFC", MatchRfcPattern(text.rfc_at)),
                        "Nombres", s_trim(text.nombres)),
                  "codigo_postal", text.cp)
        place(o) ==
            PutIf(PutIf(PutIf(o, "province", s_trim(text.ent)),
                        "municipality", s_trim(text.mun)),
                  "neighborhood", s_trim(text.col))
        street(o) ==
            PutIf(PutIf(PutIf(o, "nombre_vialidad", s_trim(text.vial)),
                        "numero_exterior", s_trim(text.numext)),
                  "numero_interior", s_trim(text.raw_int))
        contact(o) ==
            [o EXCEPT !["contact_email"] = coalesce(text.email, None),
                      !["contact_phone"] = coalesce(text.phone, None),
                      !["nationality"] = Mexicana,
                      !["clave_pais"] = MX]
        typed(out, tipo0) == [tipo |-> IF tipo0 = None THEN Fisica ELSE tipo0, row |-> out]
        after_try(out) == typed(out, tipo_persona_from_rfc(out["RFC"]))
    IN  after_try(PutBirthday(PutUpper(contact(street(place(ids(empty_row_vec)))),
                                       "curp", text.curp), cur))

\* a slip that looks at the CFDI keywords first
detect_cfdi_first(text) ==
    IF text.cfdi_kw THEN "cfdi" ELSE "csf"

detect_doc_type(text) ==
    IF text.csf_kw THEN "csf" ELSE IF text.cfdi_kw THEN "cfdi" ELSE "csf"


(***************************************************************************)
(* SAT activity matcher.                                                   *)
(***************************************************************************)
\* s.translate(str.maketrans("ÁÉÍÓÚÜÑ", "AEIOUUN"))
AccentFrom == <<"Á","É","Í","Ó","Ú","Ü","Ñ">>
AccentTo == <<"A","E","I","O","U","U","N">>
Unaccent(c) ==
    IF \E k \in DOMAIN AccentFrom : AccentFrom[k] = c
    THEN AccentTo[CHOOSE k \in DOMAIN AccentFrom : AccentFrom[k] = c]
    ELSE c

\* re.sub(r"\s+", " ", s)
RECURSIVE CollapseAllWs(_)
CollapseAllWs(s) ==
    IF Len(s) = 0 THEN s
    ELSE IF s[1] \in Whitespace
         THEN <<" ">> \o CollapseAllWs(LStrip(s))
         ELSE <<s[1]>> \o CollapseAllWs(Tail(s))

NormChar(c) ==
    LET keep(u) == IF u \in AsciiUpper \cup Digits \cup {" "} THEN u ELSE " "
    IN  keep(Unaccent(UpperChar(c)))
normalize_txt(x) ==
    IF x = None THEN <<>>
    ELSE Strip(CollapseAllWs([k \in 1..Len(x) |-> NormChar(x[k])]))

\* re.split(r"\s+", s)
RECURSIVE SplitWs(_, _)
SplitWs(s, cur) ==
    IF Len(s) = 0 THEN <<cur>>
    ELSE IF s[1] \in Whitespace
         THEN <<cur>> \o SplitWs(LStrip(s), <<>>)
         ELSE SplitWs(Tail(s), Append(cur, s[1]))

\* the tokens of 4 or more characters, without repetition, in order of first occurrence
RECURSIVE Unique(_, _)
Unique(toks, seen) ==
    IF Len(toks) = 0 THEN <<>>
    ELSE IF toks[1] \in seen THEN Unique(Tail(toks), seen)
         ELSE <<toks[1]>> \o Unique(Tail(toks), seen \cup {toks[1]})
extract_tokens(x) ==
    IF x = None \/ Len(x) = 0 THEN <<>>
    ELSE Unique(SelectSeq(SplitWs(x, <<>>), LAMBDA t : Len(t) >= 4), {})

\* str.replace(r"\|\|.*$", "", regex=True): cut at the first "||"
RECURSIVE CutAtBars(_)
CutAtBars(s) ==
    IF Len(s) < 2 THEN s
    ELSE IF s[1] = "|" /\ s[2] = "|" THEN <<>>
         ELSE <<s[1]>> \o CutAtBars(Tail(s))

\* one catalog row as load_sat_catalogs builds it from the "valor" column
CatalogRow(valor) ==
    LET normed(desc_base, desc_norm) ==
            [valor |-> valor, desc_base |-> desc_base, desc_norm |-> desc_norm,
             tokens |-> extract_tokens(desc_norm)]
        cut(desc_base) == normed(desc_base, normalize_txt(desc_base))
    IN  cut(CutAtBars(valor))

\* the rows of a catalog file, given its "valor" column
CatalogOf(valores) == Computed([i \in 1..Len(valores) |-> CatalogRow(valores[i])])

\* 1 - jellyfish.jaro_winkler_similarity(a, b), in thousandths.  The similarity is the
\* library's; the matcher only orders catalogue rows by it.  It is tabulated here by
\* the share of character positions at which the two strings differ.
jw_distance(a, b) ==
    LET n == Max(Len(a), Len(b))
        differ == {k \in 1..n : k > Len(a) \/ k > Len(b) \/ a[k] # b[k]}
    IN  IF Len(a) = 0 \/ Len(b) = 0 THEN 1000
        ELSE (1000 * Cardinality(differ)) \div n

\* np.argsort(d): the row numbers by increasing distance (rows of equal distance in
\* row order)
ArgSort(d) ==
    LET n == Len(d)
        before(j, i) == d[j] < d[i] \/ (d[j] = d[i] /\ j < i)
        rank == Computed([i \in 1..n |-> Cardinality({j \in 1..n : before(j, i)})])
    IN  [p \in 1..n |-> CHOOSE i \in 1..n : rank[i] = p - 1]

\* ord_idx[: min(40, len(ord_idx))]
TopK == 40

\* a slip that takes the greatest distance for the least
ArgMax(dist) ==
    CHOOSE p \in 1..Len(dist) : \A r \in 1..Len(dist) : dist[p] >= dist[r]

\* int(np.nanargmin(dist)): the first position of the least value
ArgMin(dist) ==
    CHOOSE p \in 1..Len(dist) :
        /\ \A r \in 1..Len(dist) : dist[p] <= dist[r]
        /\ \A r \in 1..(p - 1) : dist[r] > dist[p]

\* lines 329-362: the distances of a query to the rows of a catalog and the narrowed
\* candidates (row numbers, nearest first); no candidates when the normalised query
\* is empty
MatchPlanOf(industry, rows) ==
    LET narrowed(q_norm, q_tokens, d_all, ord_idx) ==
            LET pick(overl) ==
                    IF Len(q_norm) = 0 THEN <<>>
                    ELSE IF q_tokens # {} /\ Len(overl) > 0 THEN overl
                    ELSE ord_idx
            IN  [q_norm |-> q_norm, d_all |-> d_all,
                 cand_idx |-> pick(SelectSeq(ord_idx,
                                   LAMBDA i : (q_tokens \cap Range(rows[i].tokens)) # {}))]
        nearest(q_norm, d_all) ==
            narrowed(q_norm, Range(extract_tokens(q_norm)), d_all,
                     SubSeq(ArgSort(d_all), 1, Min(TopK, Len(d_all))))
        distances(q_norm) ==
            nearest(q_norm,
                    Computed([i \in 1..Len(rows) |-> jw_distance(q_norm, rows[i].desc_norm)]))
    IN  distances(normalize_txt(industry))

Zs(n) == [k \in 1..n |-> "Z"]

SmallPF ==
    CatalogOf(<< <<"V","E","N","T","O"," ","R","O","P","O","|","|","1">>,
                 <<"V","e","n","t","a"," ","d","e"," ","p","a","n">>,
                 <<"R","E","N","T","A","S"," ","R","O","P","A">> >>)
SmallPM ==
    CatalogOf(<< <<"C","O","M","E","R","C","I","O"," ","R","O","P","A">>,
                 <<"P","A","Z","|","|","9">> >>)

\* Rows beyond the 40 nearest: the only ones that share a token with the sample query
BigLen == 42
BigPF ==
    CatalogOf([i \in 1..BigLen |->
        IF i <= TopK
        THEN <<"V","E","N","T","O"," ","R","O","P","O">> \o Zs(i)
        ELSE Zs(10 + i) \o <<" ","R","O","P","A">>])

\* The catalog files a process may find in its working directory.  The rows of a
\* loaded catalog never change, so the state holds the name of the file and
\* CatalogRows gives its rows.
CatalogFiles == {"missing", "small_PF", "small_PM", "big_PF"}
CatalogRows(file) ==
    CASE file = "small_PF" -> SmallPF
      [] file = "small_PM" -> SmallPM
      [] file = "big_PF"   -> BigPF
      [] OTHER             -> <<>>
\* (a file that cannot be read leaves its catalog empty, lines 229-232 and 246-249)
CatalogSamples ==
    {[pf |-> "small_PF", pm |-> "missing"], [pf |-> "missing", pm |-> "small_PM"],
     [pf |-> "big_PF", pm |-> "missing"]}

\* (the last text holds the bars that a table leaves in the text of a document)
IndustrySamples ==
    {None, <<>>, <<"!","?">>, <<"V","e","n","t","a"," ","r","o","p","a">>, <<"p","a","n">>,
     <<"p","a","n","|","|","p","a","n">>}
TipoSamples ==
    {None, <<>>, <<"f","i","s","i","c","a">>, <<"M","o","r","a","l">>, <<"o","t","r","o">>,
     <<"f","i","s","i","c","a","|","|","p","a","n">>}

\* The plans of the sample queries in the sample catalogs, computed once
PlanMemo ==
    Computed([file \in CatalogFiles |->
        Computed([q \in IndustrySamples \ {None} |-> MatchPlanOf(q, CatalogRows(file))])])
MatchPlan(industry, file) == PlanMemo[file][industry]

\* openai_choose_best_sat: what the chat request gave, turned into the index the
\* function returns (NoInt for None).  A reply kind of "error" (requests.post raises)
\* or "badjson" (res.json() raises) leaves the function by an exception.
ChoiceRaises(reply) == reply.kind \in {"error", "badjson"}
openai_choose_best_sat(reply, n_opts) ==
    IF reply.kind # "int" THEN NoInt          \* non-200, no message, no digits
    ELSE IF reply.val < 0 THEN 0
    ELSE IF reply.val > n_opts THEN n_opts
    ELSE reply.val

CacheKey(tipo_persona, industry) == ToLower(tipo_persona) \o <<"|","|">> \o industry

CachePut(cache, key, res) ==
    [k \in DOMAIN cache \cup {key} |-> IF k = key THEN res ELSE cache[k]]

\* match_industry_to_sat(industry, tipo_persona, catalogs), with the module globals it
\* reads (USE_OPENAI, INDUSTRY_SAT_CACHE) and the replies of the two services as
\* parameters.  Gives the returned value (None for None), whether the call left by an
\* exception, the cache afterwards and the requests sent.
Returned(v, c, reqs) == [result |-> v, raised |-> FALSE, cache |-> c, requests |-> reqs]
Raised(c, reqs) == [result |-> None, raised |-> TRUE, cache |-> c, requests |-> reqs]

match_industry_to_sat(industry, tipo_persona, cats, use_openai, cache, emb, reply) ==
    LET \* lines 364-377: the LLM's pick if it is one of the candidates, else the nearest
        choose(cache_key, rows, cand, cand_dist, idx_rel, reqs) ==
            LET store(v) == Returned(v, CachePut(cache, cache_key, v), reqs)
            IN  IF use_openai /\ idx_rel # NoInt /\ 1 <= idx_rel /\ idx_rel <= Len(cand)
                THEN store(rows[cand[idx_rel]].valor)
                ELSE store(rows[cand[ArgMin(cand_dist)]].valor)
        \* lines 329-362: the candidates; line 366 is outside any try
        string_stage(cache_key, rows, plan, reqs0) ==
            IF Len(plan.q_norm) = 0 THEN Returned(None, cache, reqs0)
            ELSE IF Len(plan.cand_idx) = 0 THEN Returned(None, cache, reqs0)
            ELSE IF use_openai /\ ChoiceRaises(reply) THEN Raised(cache, Append(reqs0, "chat"))
            ELSE choose(cache_key, rows, plan.cand_idx,
                        [p \in 1..Len(plan.cand_idx) |-> plan.d_all[plan.cand_idx[p]]],
                        openai_choose_best_sat(reply, Len(plan.cand_idx)),
                        IF use_openai THEN Append(reqs0, "chat") ELSE reqs0)
        \* lines 305-327: stage 0 sends its request; any failure of it is swallowed
        catalog_stage(cache_key, file, rows, stage0) ==
            IF Len(rows) = 0 THEN Returned(None, cache, <<>>)
            ELSE IF stage0 /\ emb.kind = "ok" /\ emb.idx \in 1..Len(rows)
                 THEN Returned(rows[emb.idx].valor,
                               CachePut(cache, cache_key, rows[emb.idx].valor),
                               <<"embeddings">>)
            ELSE string_stage(cache_key, rows, MatchPlan(industry, file),
                              IF stage0 THEN <<"embeddings">> ELSE <<>>)
        in_file(cache_key, file, has_emb) ==
            catalog_stage(cache_key, file, CatalogRows(file), use_openai /\ has_emb)
        \* lines 297-303
        keyed(tipo, cache_key) ==
            IF cache_key \in DOMAIN cache THEN Returned(cache[cache_key], cache, <<>>)
            ELSE IF tipo # Fisica /\ tipo # Moral THEN Returned(None, cache, <<>>)
            ELSE IF tipo = Fisica THEN in_file(cache_key, cats.pf, cats.emb_pf)
            ELSE in_file(cache_key, cats.pm, cats.emb_pm)
    IN  IF ~safe_nzchar(industry) THEN Returned(None, cache, <<>>)
        ELSE IF ~safe_nzchar(tipo_persona) THEN Returned(None, cache, <<>>)
        ELSE keyed(ToLower(tipo_persona), CacheKey(tipo_persona, industry))

(***************************************************************************)
(* The parsers on their own: every sample text is handed to each parser.    *)
(***************************************************************************)
\* Sample characters of each class of the RFC pattern
RfcHeadSample == {"A", "&"}
RfcTailSample == {"X", "7"}
SeqsOf(S, n) == [1..n -> S]

\* What can follow an "RFC:" label: every string of the pattern over the sample
\* characters, with the birth date digits fixed per sample
RfcDigitSamples == {<<"8","5","0","1","0","1">>, <<"2","6","1","2","3","1">>}
RfcTexts ==
    {h \o d \o t : h \in SeqsOf(RfcHeadSample, 3) \cup SeqsOf(RfcHeadSample, 4),
                   d \in RfcDigitSamples,
                   t \in SeqsOf(RfcTailSample, 2) \cup SeqsOf(RfcTailSample, 3)}
    \cup {<<"A","B","C","8","5","0","1","0","1","X","X","X">>,
          <<"A","B","C","8","5","0","1","0","1","X","X","X"," ","C","U","R","P">>,
          <<"A","B","8","5","0","1","0","1","X","X","X">>,
          <<"M","U","ñ","o","9","0","0","5","1","7","a","b","1">>}

NameSample == <<"A","N","A"," "," ","L","U","Z">>
SurnameSample == <<"D","I","A","Z">>
RazonSample == <<"A","C","M","E"," ","S","A">>
CurpSample == <<"D","I","A","L","9","9","0","2","0","3","M","D","F","Z","Z","Z","0","1">>

ParseTexts ==
    {[BlankText EXCEPT !.rfc_at = r, !.nombres = n, !.ap1 = a, !.full_rs = f, !.curp = c] :
        r \in RfcTexts \cup {None},
        n \in {None, NameSample},
        a \in {None, SurnameSample},
        f \in {None, RazonSample},
        c \in {None, CurpSample}}

YearSamples == {26, 85}

vars == <<pc, today_yy, doc, parsed, USE_OPENAI, catalogs, INDUSTRY_SAT_CACHE, last,
          use_ocr, files, fis_rows, mor_rows, results, session_fisica, session_moral, sat,
          contract, found, applied, report, xmls, _api_mon, bbva, reviews,
          page, sessions, auth, paging>>
contractVars == <<contract, found>>
downloadVars == <<xmls, _api_mon>>
laterVars == <<reviews, page, sessions, auth, paging>>
otherVars == <<contractVars, applied, report, downloadVars, bbva, laterVars>>
batchVars == <<use_ocr, files, fis_rows, mor_rows, results, session_fisica, session_moral, sat>>
parserVars == <<today_yy, doc, parsed>>
matcherVars == <<USE_OPENAI, catalogs, INDUSTRY_SAT_CACHE, last>>

EmptyCache == [k \in {} |-> None]
NoCall == [op |-> "none"]
NoCatalogs == [pf |-> "missing", pm |-> "missing", emb_pf |-> FALSE, emb_pm |-> FALSE]

ContractIdle ==
    /\ contract = <<>>
    /\ found = NoCall

ReportIdle == report = [rfc |-> <<>>, source |-> "api", items |-> <<>>, h |-> <<>>, rows |-> {}]

DownloadIdle ==
    /\ xmls = [n |-> 0, at |-> <<>>, resp |-> <<>>, holder |-> 0, out |-> <<>>]
    /\ _api_mon = [last_ok |-> FALSE, last_status |-> NoInt, last_url |-> None]

BbvaIdle ==
    bbva = [df |-> <<>>, fecha |-> <<>>, start_ref |-> 0, bloque |-> <<>>,
            raised |-> FALSE, file |-> None]

\* a file or a table: whether it is there, and the rows it holds
Absent == [exists |-> FALSE, rows |-> <<>>]
Stored(rows) == [exists |-> TRUE, rows |-> rows]

ReviewsIdle == reviews = [csv |-> Absent, db |-> Absent, calls |-> 0, last |-> NoCall]

PageIdle == page = NoCall
SessionsIdle == sessions = NoCall
AuthIdle == auth = NoCall
PagingIdle == paging = NoCall

LaterIdle == ReviewsIdle /\ PageIdle /\ SessionsIdle /\ AuthIdle /\ PagingIdle

OtherIdle == ContractIdle /\ applied = NoCall /\ ReportIdle /\ DownloadIdle /\ BbvaIdle /\ LaterIdle

MatcherIdle ==
    /\ USE_OPENAI = FALSE
    /\ catalogs = NoCatalogs
    /\ INDUSTRY_SAT_CACHE = EmptyCache
    /\ last = NoCall

ParserIdle ==
    /\ today_yy = 26
    /\ doc = BlankText
    /\ parsed = None

BatchIdle ==
    /\ use_ocr = FALSE
    /\ files = <<>>
    /\ fis_rows = <<>>
    /\ mor_rows = <<>>
    /\ results = <<>>
    /\ session_fisica = <<>>
    /\ session_moral = <<>>
    /\ sat = <<>>

toolVars == <<parserVars, matcherVars, batchVars, contractVars, applied, report, downloadVars, bbva>>
ToolsIdle ==
    /\ ParserIdle /\ MatcherIdle /\ BatchIdle
    /\ ContractIdle /\ applied = NoCall /\ ReportIdle /\ DownloadIdle /\ BbvaIdle

besidesReviews == <<toolVars, page, sessions, auth, paging>>
besidesPage == <<toolVars, reviews, sessions, auth, paging>>
besidesSessions == <<toolVars, reviews, page, auth, paging>>
besidesAuth == <<toolVars, reviews, page, sessions, paging>>
besidesPaging == <<toolVars, reviews, page, sessions, auth>>

InitParse ==
    /\ pc = "ready"
    /\ OtherIdle
    /\ today_yy \in YearSamples
    /\ doc \in ParseTexts
    /\ parsed = None
    /\ MatcherIdle
    /\ BatchIdle

ParseCsf ==
    /\ pc = "ready"
    /\ parsed' = parse_csf_fields(doc, today_yy)
    /\ pc' = "csf"
    /\ UNCHANGED <<today_yy, doc>>
    /\ UNCHANGED matcherVars
    /\ UNCHANGED batchVars
    /\ UNCHANGED otherVars

ParseCfdi ==
    /\ pc = "ready"
    /\ parsed' = parse_cfdi_fields(doc, today_yy)
    /\ pc' = "cfdi"
    /\ UNCHANGED <<today_yy, doc>>
    /\ UNCHANGED matcherVars
    /\ UNCHANGED batchVars
    /\ UNCHANGED otherVars

NextParse == ParseCsf \/ ParseCfdi

SpecParse == InitParse /\ [][NextParse]_vars

\* C1: every record a parser returns with a 13-character RFC has person type
\* "fisica", and every record with a 12-character RFC has person type "moral".
C1_TypeFollowsRfcLength ==
    pc \in {"csf", "cfdi"} =>
        /\ (parsed.row["RFC"] # None /\ Len(parsed.row["RFC"]) = 13 => parsed.tipo = Fisica)
        /\ (parsed.row["RFC"] # None /\ Len(parsed.row["RFC"]) = 12 => parsed.tipo = Moral)

ExampleRfc == <<"A","B","C","8","5","0","1","0","1","X","X","X">>

\* C14: parsing a CSF text that contains "RFC: ABC850101XXX" gives a record with
\* RFC "ABC850101XXX", person type natural ("fisica") and birthday "1985-01-01".
C14_ExampleRecord ==
    (pc = "csf" /\ doc.rfc_at = ExampleRfc) =>
        /\ parsed.row["RFC"] = ExampleRfc
        /\ parsed.tipo = Fisica
        /\ parsed.row["birthday_at"] = <<"1","9","8","5","-","0","1","-","0","1">>


(***************************************************************************)
(* The matcher on its own: calls with sample arguments and sample replies   *)
(* of the two services, and the script being run again (every interaction  *)
(* with the page runs app_isaac.py from its first line, through            *)
(* runpy.run_path in pages/01_Lector_CSF.py).                               *)
(***************************************************************************)
\* The embeddings request: it raises, gives no vector (a status other than 200, or no
\* data), or gives a vector whose nearest catalog row is row idx
EmbReplies ==
    {[kind |-> "error", idx |-> 0, val |-> 0], [kind |-> "none", idx |-> 0, val |-> 0],
     [kind |-> "ok", idx |-> 2, val |-> 0]}
\* The chat request: it raises, answers with a status other than 200, with a body
\* that is not JSON, with text holding no number, or with text whose first integer is val
ReplyVals == {-1, 0, 1, 2, 99}
ChatReplies ==
    {[kind |-> k, idx |-> 0, val |-> 0] : k \in {"error", "status", "badjson", "nonum"}}
    \cup {[kind |-> "int", idx |-> 0, val |-> v] : v \in ReplyVals}
Unused == [kind |-> "unused", idx |-> 0, val |-> 0]

InitMatch ==
    /\ pc = "run"
    /\ OtherIdle
    /\ ParserIdle
    /\ USE_OPENAI \in BOOLEAN
    /\ \E c \in CatalogSamples, e \in BOOLEAN :
          /\ (e => USE_OPENAI)
          /\ catalogs = [pf |-> c.pf, pm |-> c.pm,
                         emb_pf |-> e /\ Len(CatalogRows(c.pf)) > 0,
                         emb_pm |-> e /\ Len(CatalogRows(c.pm)) > 0]
    /\ INDUSTRY_SAT_CACHE = EmptyCache
    /\ last = NoCall
    /\ BatchIdle

\* one call of match_industry_to_sat
Match(industry, tipo_persona, emb, reply) ==
    LET record(r) ==
            /\ INDUSTRY_SAT_CACHE' = r.cache
            /\ last' = [op |-> "match", industry |-> industry, tipo_persona |-> tipo_persona,
                        emb |-> emb, reply |-> reply,
                        result |-> r.result, raised |-> r.raised, requests |-> r.requests]
    IN  /\ pc = "run"
        /\ record(match_industry_to_sat(industry, tipo_persona, catalogs, USE_OPENAI,
                                        INDUSTRY_SAT_CACHE, emb, reply))
        /\ UNCHANGED <<pc, USE_OPENAI, catalogs>>
        /\ UNCHANGED parserVars
        /\ UNCHANGED batchVars
        /\ UNCHANGED otherVars

\* the requests a call sends, given the replies to those before
RequestsSent(industry, tipo_persona, emb, reply) ==
    Range(match_industry_to_sat(industry, tipo_persona, catalogs, USE_OPENAI,
                                INDUSTRY_SAT_CACHE, emb, reply).requests)

\* a reply is drawn for each request the call sends, and for no other
MatchCall ==
    \E industry \in IndustrySamples, tipo_persona \in TipoSamples :
      \E emb \in IF "embeddings" \in RequestsSent(industry, tipo_persona, Unused, Unused)
                  THEN EmbReplies ELSE {Unused} :
        \E reply \in IF "chat" \in RequestsSent(industry, tipo_persona, emb, Unused)
                      THEN ChatReplies ELSE {Unused} :
            Match(industry, tipo_persona, emb, reply)

\* the page is run again: line 96 binds INDUSTRY_SAT_CACHE to a new empty dict;
\* the catalogs are kept by st.cache_resource
ScriptRerun ==
    /\ pc = "run"
    /\ INDUSTRY_SAT_CACHE' = EmptyCache
    /\ last' = [op |-> "rerun"]
    /\ UNCHANGED <<pc, USE_OPENAI, catalogs>>
    /\ UNCHANGED parserVars
    /\ UNCHANGED batchVars
    /\ UNCHANGED otherVars

NextMatch == MatchCall \/ ScriptRerun

SpecMatch == InitMatch /\ [][NextMatch]_vars


(***************************************************************************)
(* Claims about the matcher                                                *)
(***************************************************************************)
IsMatch(c) == c.op = "match"
Blank(x) == x = None \/ x = <<>>
ValidInputs(c) == ~Blank(c.industry) /\ ~Blank(c.tipo_persona)
KnownTipo(c) == ToLower(c.tipo_persona) \in {Fisica, Moral}
RowsOf(c) == CatalogRows(IF ToLower(c.tipo_persona) = Fisica THEN catalogs.pf ELSE catalogs.pm)
\* a call that gets as far as looking for a match
Matching(c) == IsMatch(c) /\ ValidInputs(c) /\ KnownTipo(c) /\ Len(RowsOf(c)) > 0

\* C2: a cache entry is never removed or changed, and a call whose pair is in the
\* cache returns the cached result and sends no request.
C2_CacheEntriesKept ==
    [][/\ \A k \in DOMAIN INDUSTRY_SAT_CACHE :
              k \in DOMAIN INDUSTRY_SAT_CACHE' /\ INDUSTRY_SAT_CACHE'[k] = INDUSTRY_SAT_CACHE[k]
       /\ (IsMatch(last') /\ ValidInputs(last')
              /\ CacheKey(last'.tipo_persona, last'.industry) \in DOMAIN INDUSTRY_SAT_CACHE)
            => /\ last'.result = INDUSTRY_SAT_CACHE[CacheKey(last'.tipo_persona, last'.industry)]
               /\ last'.requests = <<>>]_vars

\* C3: no call of match_industry_to_sat leaves by an exception, whatever the two
\* services reply.
C3_NeverRaises == IsMatch(last) => ~last.raised

\* C4: a call with an empty activity text or an empty person type returns none and
\* leaves the cache as it was, whatever the catalogs and the cache hold.
C4_EmptyInputGivesNone ==
    [][(IsMatch(last') /\ ~ValidInputs(last'))
          => /\ last'.result = None
             /\ ~last'.raised
             /\ last'.requests = <<>>
             /\ INDUSTRY_SAT_CACHE' = INDUSTRY_SAT_CACHE]_vars

C4_Witness ==
    /\ IsMatch(last)
    /\ ~ValidInputs(last)
    /\ last.result = None
    /\ INDUSTRY_SAT_CACHE # EmptyCache
    /\ catalogs.pf = "big_PF"

\* The narrowed candidates as the specification words them: the at most 40 rows
\* closest to the query, restricted to those that share a token of 4 or more
\* characters with it, or all of them when none does.
Dist(industry, row) == jw_distance(normalize_txt(industry), row.desc_norm)
Closest40(industry, rows) ==
    {i \in 1..Len(rows) :
        Cardinality({j \in 1..Len(rows) :
            \/ Dist(industry, rows[j]) < Dist(industry, rows[i])
            \/ (Dist(industry, rows[j]) = Dist(industry, rows[i]) /\ j < i)}) < 40}
SharesToken(industry, row) ==
    \E t \in Range(extract_tokens(normalize_txt(industry))) :
        Len(t) >= 4 /\ t \in Range(row.tokens)
Narrowed(industry, rows) ==
    LET near  == Closest40(industry, rows)
        share == {i \in near : SharesToken(industry, rows[i])}
    IN  IF share # {} THEN share ELSE near
IsNearestNarrowed(v, industry, rows) ==
    \E i \in Narrowed(industry, rows) :
        /\ rows[i].valor = v
        /\ \A j \in Narrowed(industry, rows) : Dist(industry, rows[i]) <= Dist(industry, rows[j])

\* C5 as first stated: with no API key every matching call sends no request and
\* returns the nearest of the narrowed candidates.
C5_NoKeyGivesNearest ==
    (~USE_OPENAI /\ Matching(last))
        => /\ last.requests = <<>>
           /\ last.result # None
           /\ IsNearestNarrowed(last.result, last.industry, RowsOf(last))

\* C5 as amended: with no API key every matching call sends no request; it returns
\* none when the activity text has no letter or digit (its normalised form is
\* empty), and the nearest of the narrowed candidates otherwise.
C5_NoKeyGivesNearestUnlessBlank ==
    (~USE_OPENAI /\ Matching(last))
        => /\ last.requests = <<>>
           /\ ~last.raised
           /\ IF Len(normalize_txt(last.industry)) = 0
              THEN last.result = None
              ELSE /\ last.result # None
                   /\ IsNearestNarrowed(last.result, last.industry, RowsOf(last))

\* the nearest row of the catalog is not a narrowed candidate, and the call returns
\* the nearest of the narrowed ones
C5_Witness ==
    /\ ~USE_OPENAI
    /\ Matching(last)
    /\ last.result # None
    /\ catalogs.pf = "small_PF"
    /\ \E i \in 1..Len(RowsOf(last)) :
          /\ i \notin Narrowed(last.industry, RowsOf(last))
          /\ \A j \in Narrowed(last.industry, RowsOf(last)) :
                Dist(last.industry, RowsOf(last)[i]) < Dist(last.industry, RowsOf(last)[j])

\* C6: when the chat request is answered, an answer k in 1..n returns the k-th
\* narrowed candidate, and every other answer returns the nearest narrowed candidate.
ChatAnswered(c) == IsMatch(c) /\ c.reply.kind \in {"int", "nonum"}
C6_PickOrNearest ==
    ChatAnswered(last) =>
        LET rows == RowsOf(last)
            cand == MatchPlan(last.industry, IF ToLower(last.tipo_persona) = Fisica
                                             THEN catalogs.pf ELSE catalogs.pm).cand_idx
            k    == last.reply.val
        IN  IF last.reply.kind = "int" /\ 1 <= k /\ k <= Len(cand)
            THEN last.result = rows[cand[k]].valor
            ELSE IsNearestNarrowed(last.result, last.industry, rows)


(***************************************************************************)
(* The batch: the "if go:" block of app_isaac.py                           *)
(***************************************************************************)
\* A text is held as the fields the parsers can find in it, the length of its
\* stripped form, and whether a parser raises on it.
ShortText == 80
LongText == 200
NoText == [chars |-> 0, fields |-> BlankText, unparsable |-> FALSE]

\* A document d gives its text layer (txt_pdf, empty when pdfplumber fails),
\* whether text_quality(txt_pdf) < 5, whether convert_from_path succeeds, the text
\* of the OCR, whether text_quality ranks it above the text layer, and whether an
\* exception escapes the OCR branch.
extract_pdf_text(d, ocr) ==
    LET need_ocr == d.txt_pdf.chars < ShortText \/ (ocr /\ d.low_quality)
    IN  IF ~need_ocr THEN [raised |-> FALSE, txt |-> d.txt_pdf]
        ELSE IF d.fault_ocr THEN [raised |-> TRUE, txt |-> NoText]
        ELSE IF ~d.images_ok THEN [raised |-> FALSE, txt |-> d.txt_pdf]
        ELSE [raised |-> FALSE, txt |-> IF d.ocr_better THEN d.txt_ocr ELSE d.txt_pdf]

Unknown == [tipo |-> Desconocido, row |-> empty_row_vec]

\* a slip that leaves out the test for an empty text
process_one_doc_unguarded(d, ocr, cur) ==
    LET of(ex) ==
            IF ex.raised THEN [raised |-> TRUE, res |-> Unknown]
            ELSE IF ex.txt.unparsable THEN [raised |-> FALSE, res |-> Unknown]
            ELSE [raised |-> FALSE, res |-> parse_csf_fields(ex.txt.fields, cur)]
    IN  of(extract_pdf_text(d, ocr))

process_one_doc(d, ocr, cur) ==
    LET of(ex) ==
            IF ex.raised THEN [raised |-> TRUE, res |-> Unknown]
            ELSE IF ex.txt.chars = 0 THEN [raised |-> FALSE, res |-> Unknown]
            ELSE IF ex.txt.unparsable THEN [raised |-> FALSE, res |-> Unknown]
            ELSE IF detect_doc_type(ex.txt.fields) = "csf"
                 THEN [raised |-> FALSE, res |-> parse_csf_fields(ex.txt.fields, cur)]
                 ELSE [raised |-> FALSE, res |-> parse_cfdi_fields(ex.txt.fields, cur)]
    IN  of(extract_pdf_text(d, ocr))

\* every value is None or a str: "" if None else str(vv)
all_empty(x) == \A k \in DOMAIN x : (IF x[k] = None THEN <<>> ELSE x[k]) = <<>>

row_is_empty(row) ==
    IF safe_nzchar(row["RFC"]) \/ safe_nzchar(row["Nombres"]) THEN FALSE ELSE all_empty(row)

\* the body of the loop over files_df up to the choice of a list
LoopBody(d, ocr, cur) ==
    LET second(res1, r2) ==
            [res |-> IF r2.raised THEN res1 ELSE r2.res, first |-> res1, calls |-> 2]
        retried(res1) ==
            IF row_is_empty(res1.row) /\ ~ocr
            THEN second(res1, process_one_doc(d, TRUE, cur))
            ELSE [res |-> res1, first |-> res1, calls |-> 1]
        first(r1) == retried(IF r1.raised THEN Unknown ELSE r1.res)
    IN  first(process_one_doc(d, ocr, cur))

\* a slip that sends to the legal entities every record that is not "fisica"
AppendByNotFisica(res, fis, mor) ==
    IF res.tipo # Fisica
    THEN [fis |-> fis, mor |-> Append(mor, res.row)]
    ELSE [fis |-> Append(fis, res.row), mor |-> mor]

\* if res.get("tipo") == "moral": mor_rows.append(...) else: fis_rows.append(...)
AppendByTipo(res, fis, mor) ==
    IF res.tipo = Moral
    THEN [fis |-> fis, mor |-> Append(mor, res.row)]
    ELSE [fis |-> Append(fis, res.row), mor |-> mor]

\* pd.DataFrame(lst, columns=TARGET_COLS): a table is the sequence of its rows
to_df(lst) == [k \in 1..Len(lst) |-> [c \in TargetColSet |-> lst[k][c]]]

\* astype(str) of a cell that is None or a str
astype_str(v) == IF v = None THEN <<"N","o","n","e">> ELSE v
NaWords == {<<"N","o","n","e">>, <<"n","a","n">>, <<"N","a","N">>}
as_char_df(df) ==
    [k \in 1..Len(df) |->
        [c \in TargetColSet |->
            IF astype_str(df[k][c]) \in NaWords THEN <<>> ELSE astype_str(df[k][c])]]

\* df["industry_SAT"] = [...]
SetIndustrySat(df, col) == [k \in 1..Len(df) |-> [df[k] EXCEPT !["industry_SAT"] = col[k]]]

\* ---- the documents drawn for a batch
RfcFisicaSample == <<"D","I","A","L","9","9","0","2","0","3","A","B","1">>
RfcMoralSample == <<"A","C","M","8","5","0","1","0","1","X","X","1">>
VentaRopa == <<"V","e","n","t","a"," ","r","o","p","a">>
Pan == <<"p","a","n">>

TextFisica ==
    [chars |-> LongText, unparsable |-> FALSE,
     fields |-> [BlankText EXCEPT !.csf_kw = TRUE, !.rfc_at = RfcFisicaSample,
                                  !.nombres = NameSample, !.ap1 = SurnameSample,
                                  !.curp = CurpSample, !.industry = VentaRopa]]
TextMoral ==
    [chars |-> LongText, unparsable |-> FALSE,
     fields |-> [BlankText EXCEPT !.csf_kw = TRUE, !.rfc_at = RfcMoralSample,
                                  !.full_rs = RazonSample, !.industry = Pan]]
TextInvoice ==
    [chars |-> LongText, unparsable |-> FALSE,
     fields |-> [BlankText EXCEPT !.cfdi_kw = TRUE, !.rfc_at = RfcMoralSample,
                                  !.nombres = RazonSample]]
TextNoise == [chars |-> LongText, unparsable |-> FALSE, fields |-> BlankText]
TextBad == [chars |-> LongText, unparsable |-> TRUE, fields |-> BlankText]

\* a PDF with a good text layer
DocText ==
    [txt_pdf |-> TextFisica, low_quality |-> FALSE, images_ok |-> TRUE,
     txt_ocr |-> TextFisica, ocr_better |-> FALSE, fault_ocr |-> FALSE]
\* a scan: no text layer, the OCR reads it
DocScan ==
    [txt_pdf |-> NoText, low_quality |-> TRUE, images_ok |-> TRUE,
     txt_ocr |-> TextMoral, ocr_better |-> TRUE, fault_ocr |-> FALSE]
\* no text layer and no page image
DocBlank ==
    [txt_pdf |-> NoText, low_quality |-> TRUE, images_ok |-> FALSE,
     txt_ocr |-> NoText, ocr_better |-> FALSE, fault_ocr |-> FALSE]
\* a text layer of noise over a readable invoice
DocNoise ==
    [txt_pdf |-> TextNoise, low_quality |-> TRUE, images_ok |-> TRUE,
     txt_ocr |-> TextInvoice, ocr_better |-> TRUE, fault_ocr |-> FALSE]
\* a text layer the parser raises on, and an OCR that raises
DocBad ==
    [txt_pdf |-> TextBad, low_quality |-> TRUE, images_ok |-> TRUE,
     txt_ocr |-> NoText, ocr_better |-> FALSE, fault_ocr |-> TRUE]

DocSamples == {DocText, DocScan, DocBlank, DocNoise, DocBad}
MaxDocs == 3
BatchCatalogs == [pf |-> "small_PF", pm |-> "small_PM", emb_pf |-> FALSE, emb_pm |-> FALSE]

InitBatch ==
    /\ pc = "idle"
    /\ OtherIdle
    /\ ParserIdle
    /\ USE_OPENAI \in BOOLEAN
    /\ catalogs = BatchCatalogs
    /\ INDUSTRY_SAT_CACHE = EmptyCache
    /\ last = NoCall
    /\ use_ocr \in BOOLEAN
    /\ files \in UNION {[1..n -> DocSamples] : n \in 0..MaxDocs}
    /\ fis_rows = <<>>
    /\ mor_rows = <<>>
    /\ results = <<>>
    /\ session_fisica = <<>>
    /\ session_moral = <<>>
    /\ sat = <<>>

\* the button is pressed: the script runs again from its top and enters the block
Go ==
    /\ pc = "idle"
    /\ pc' = "loop"
    /\ INDUSTRY_SAT_CACHE' = EmptyCache
    /\ fis_rows' = <<>>
    /\ mor_rows' = <<>>
    /\ results' = <<>>
    /\ UNCHANGED <<USE_OPENAI, catalogs, last, use_ocr, files, session_fisica, session_moral, sat>>
    /\ UNCHANGED parserVars
    /\ UNCHANGED otherVars

\* one turn of the loop over files_df
ProcessDoc ==
    LET append(lists) ==
            /\ fis_rows' = lists.fis
            /\ mor_rows' = lists.mor
        handle(b) ==
            /\ results' = Append(results, b)
            /\ append(AppendByTipo(b.res, fis_rows, mor_rows))
    IN  /\ pc = "loop"
        /\ Len(results) < Len(files)
        /\ handle(LoopBody(files[Len(results) + 1], use_ocr, today_yy))
        /\ UNCHANGED <<pc, use_ocr, files, session_fisica, session_moral, sat>>
        /\ UNCHANGED matcherVars
        /\ UNCHANGED parserVars
        /\ UNCHANGED otherVars

\* the loop is over: both tables are stored as as_char_df(to_df(...))
Tabulate ==
    /\ pc = "loop"
    /\ Len(results) = Len(files)
    /\ session_fisica' = as_char_df(to_df(fis_rows))
    /\ session_moral' = as_char_df(to_df(mor_rows))
    /\ sat' = <<>>
    /\ pc' = "sat_fisica"
    /\ UNCHANGED <<use_ocr, files, fis_rows, mor_rows, results>>
    /\ UNCHANGED matcherVars
    /\ UNCHANGED parserVars
    /\ UNCHANGED otherVars

TableOf(which) == IF which = "sat_fisica" THEN session_fisica ELSE session_moral
LabelOf(which) == IF which = "sat_fisica" THEN Fisica ELSE Moral

\* add_industry_sat matches the next row of the table; an exception leaves the block
MatchRow ==
    LET record(industry, tipo, emb, reply, r) ==
            /\ INDUSTRY_SAT_CACHE' = r.cache
            /\ last' = [op |-> "match", industry |-> industry, tipo_persona |-> tipo,
                        emb |-> emb, reply |-> reply, result |-> r.result,
                        raised |-> r.raised, requests |-> r.requests]
            /\ sat' = IF r.raised THEN <<>> ELSE Append(sat, r.result)
            /\ pc' = IF r.raised THEN "failed" ELSE pc
        call(industry, tipo) ==
            \E emb \in IF "embeddings" \in RequestsSent(industry, tipo, Unused, Unused)
                       THEN EmbReplies ELSE {Unused} :
              \E reply \in IF "chat" \in RequestsSent(industry, tipo, emb, Unused)
                           THEN ChatReplies ELSE {Unused} :
                record(industry, tipo, emb, reply,
                       match_industry_to_sat(industry, tipo, catalogs, USE_OPENAI,
                                             INDUSTRY_SAT_CACHE, emb, reply))
    IN  /\ pc \in {"sat_fisica", "sat_moral"}
        /\ Len(sat) < Len(TableOf(pc))
        /\ call(TableOf(pc)[Len(sat) + 1]["industry"], LabelOf(pc))
        /\ UNCHANGED <<USE_OPENAI, catalogs>>
        /\ UNCHANGED <<use_ocr, files, fis_rows, mor_rows, results, session_fisica, session_moral>>
        /\ UNCHANGED parserVars
        /\ UNCHANGED otherVars

\* add_industry_sat returns and the table is stored again
StoreSat ==
    /\ pc \in {"sat_fisica", "sat_moral"}
    /\ Len(sat) = Len(TableOf(pc))
    /\ session_fisica' = IF pc = "sat_fisica" THEN SetIndustrySat(session_fisica, sat)
                         ELSE session_fisica
    /\ session_moral' = IF pc = "sat_moral" THEN SetIndustrySat(session_moral, sat)
                        ELSE session_moral
    /\ sat' = <<>>
    /\ pc' = IF pc = "sat_fisica" THEN "sat_moral" ELSE "done"
    /\ UNCHANGED <<use_ocr, files, fis_rows, mor_rows, results>>
    /\ UNCHANGED matcherVars
    /\ UNCHANGED parserVars
    /\ UNCHANGED otherVars

Next == Go \/ ProcessDoc \/ Tabulate \/ MatchRow \/ StoreSat

Spec == InitBatch /\ [][Next]_vars

(***************************************************************************)
(* Claims about the batch                                                  *)
(***************************************************************************)
Handled == 1..Len(results)
NoRfcNoName(row) == ~safe_nzchar(row["RFC"]) /\ ~safe_nzchar(row["Nombres"])

\* C7: a record with neither an RFC nor a name is reported empty by row_is_empty,
\* and when OCR was off its document is processed once more with OCR on.
C7_NoRfcNoNameRetried ==
    \A k \in Handled :
        NoRfcNoName(results[k].first.row)
            => /\ row_is_empty(results[k].first.row)
               /\ (~use_ocr => results[k].calls = 2)

\* the last call of process_one_doc made for document k ran with OCR on
LastWithOcr(k) == use_ocr \/ results[k].calls = 2
\* the document gives no text, or its extraction raises, or the parser raises on it
CannotBeRead(d, ocr) ==
    \/ extract_pdf_text(d, ocr).raised
    \/ extract_pdf_text(d, ocr).txt.chars = 0
    \/ extract_pdf_text(d, ocr).txt.unparsable

\* C8: a document that cannot be read or parsed gives type "desconocido" and a
\* record whose fields are all absent, and the loop goes on: while documents remain
\* the batch stays in its loop, and each of its steps handles one more document.
C8_FailedDocIsUnknown ==
    /\ [](\A k \in Handled :
            CannotBeRead(files[k], LastWithOcr(k))
                => /\ results[k].res.tipo = Desconocido
                   /\ \A c \in TargetColSet : results[k].res.row[c] = None)
    /\ []((pc # "idle" /\ Len(results) < Len(files)) => pc = "loop")
    /\ [][(pc = "loop" /\ Len(results) < Len(files))
             => (pc' = "loop" /\ Len(results') = Len(results) + 1)]_vars

C8_Witness ==
    /\ Len(results) >= 2
    /\ CannotBeRead(files[1], LastWithOcr(1))
    /\ results[1].res = Unknown
    /\ results[1].calls = 2
    /\ results[2].res.tipo = Moral

\* C9: each document handled has put exactly one record in exactly one list, the
\* legal entities' list when its type is "moral" and the other list otherwise, in
\* document order; once the loop is over the two lists, and the two tables made of
\* them, hold as many rows as there are documents.
RowsWhere(keep(_)) ==
    LET chosen == SelectSeq(results, keep)
    IN  [k \in 1..Len(chosen) |-> chosen[k].res.row]
IsMoral(b) == b.res.tipo = Moral
IsNotMoral(b) == b.res.tipo # Moral
C9_OneRowPerDocument ==
    /\ mor_rows = RowsWhere(IsMoral)
    /\ fis_rows = RowsWhere(IsNotMoral)
    /\ Len(fis_rows) + Len(mor_rows) = Len(results)
    /\ pc \in {"sat_fisica", "sat_moral", "done", "failed"}
          => /\ Len(results) = Len(files)
             /\ Len(session_fisica) = Len(fis_rows)
             /\ Len(session_moral) = Len(mor_rows)

C9_Witness ==
    /\ pc = "done"
    /\ Len(files) = 3
    /\ Len(mor_rows) = 1
    /\ Len(fis_rows) = 2
    /\ fis_rows[1] # fis_rows[2]
    /\ fis_rows[2] = results[3].res.row
    /\ results[2].res.tipo = Moral

(***************************************************************************)
(* The finalize step on its own: as_char_df(to_df(...)) of one record whose *)
(* fields are all populated.                                               *)
(***************************************************************************)
CellSamples ==
    {<<"A","1">>, <<" ","0","7">>, <<"N","o","n","e">>, <<"n","a","n">>, <<"N","a","N">>}
FullRecords ==
    {[c \in TargetColSet |-> IF c = col THEN v ELSE <<"A","1">>] :
        col \in TargetColSet, v \in CellSamples}

InitTable ==
    /\ pc = "rows"
    /\ OtherIdle
    /\ ParserIdle
    /\ MatcherIdle
    /\ use_ocr = FALSE
    /\ files = <<>>
    /\ fis_rows \in {<<r>> : r \in FullRecords}
    /\ mor_rows = <<>>
    /\ results = <<>>
    /\ session_fisica = <<>>
    /\ session_moral = <<>>
    /\ sat = <<>>

\* lines 1122-1123
Finalize ==
    /\ pc = "rows"
    /\ session_fisica' = as_char_df(to_df(fis_rows))
    /\ session_moral' = as_char_df(to_df(mor_rows))
    /\ pc' = "tables"
    /\ UNCHANGED <<use_ocr, files, fis_rows, mor_rows, results, sat>>
    /\ UNCHANGED matcherVars
    /\ UNCHANGED parserVars
    /\ UNCHANGED otherVars

NextTable == Finalize

SpecTable == InitTable /\ [][NextTable]_vars

\* C10: every cell of the finalized table equals the string the record held in
\* that field, for a record whose fields are all populated strings.
C10_CellsKeepTheirStrings ==
    pc = "tables" =>
        \A k \in 1..Len(fis_rows) : \A c \in TargetColSet :
            fis_rows[k][c] # None => session_fisica[k][c] = fis_rows[k][c]

\* C18: when a batch run raises, the session's tables of natural persons and of
\* legal entities hold no row of that run (they were empty when it began).
C18_FailedRunLeavesNoRows ==
    pc = "failed" => (session_fisica = <<>> /\ session_moral = <<>>)


(***************************************************************************)
(* The contract reader (apps/lector_contrato/app.py): the extractors that  *)
(* look for an amount or a percentage near an anchor phrase.               *)
(*                                                                         *)
(* A compiled pattern is a sequence of alternatives, an alternative a      *)
(* sequence of items: a character class or a group, each with the least    *)
(* and the greatest number of repetitions, or the word boundary \b.  Every *)
(* pattern of this file is compiled with re.IGNORECASE: a class holds      *)
(* lower-case characters and is tested against the character and against   *)
(* its lower-case fold.                                                    *)
(* A position is the number of characters before it, as in Python.         *)
(***************************************************************************)
Many == -1

Cls(set, lo, hi) == [k |-> "cls", set |-> set, body |-> <<>>, lo |-> lo, hi |-> hi]
Grp(body, lo, hi) == [k |-> "grp", set |-> {}, body |-> body, lo |-> lo, hi |-> hi]
WordB == [k |-> "wb", set |-> {}, body |-> <<>>, lo |-> 1, hi |-> 1]
Lit(word) == [j \in 1..Len(word) |-> Cls({word[j]}, 1, 1)]
Space0 == <<Cls(Whitespace, 0, Many)>>
Space1 == <<Cls(Whitespace, 1, Many)>>
\* the curly quotes of the patterns are written as the angle quotes here
OpenQuote == {"«", "\""}
CloseQuote == {"»", "\""}

\* \w of a str pattern
WordChars == Range(UpperLetters) \cup Range(LowerLetters) \cup Digits \cup {"_"}
WordAt(t, j) == j \in 1..Len(t) /\ t[j] \in WordChars
Boundary(t, i) == WordAt(t, i) # WordAt(t, i + 1)

\* the positions where the items p can end when they start at position i
RECURSIVE Ends(_, _, _)
RECURSIVE RepEnds(_, _, _, _)
Step(t, from, h) ==
    IF h.k = "cls"
    THEN {j + 1 : j \in {x \in from : x < Len(t) /\ (t[x + 1] \in h.set
                                                        \/ LowerChar(t[x + 1]) \in h.set)}}
    ELSE UNION {Ends(t, j, h.body) : j \in from}
RepEnds(t, from, h, n) ==
    (IF n >= h.lo THEN from ELSE {}) \cup
    (IF from # {} /\ (h.hi = Many \/ n < h.hi) THEN RepEnds(t, Step(t, from, h), h, n + 1) ELSE {})
Ends(t, i, p) ==
    IF Len(p) = 0 THEN {i}
    ELSE UNION {Ends(t, j, Tail(p)) :
                  j \in IF Head(p).k = "wb"
                        THEN (IF Boundary(t, i) THEN {i} ELSE {})
                        ELSE RepEnds(t, {i}, Head(p), 0)}

MaxOf(set) == CHOOSE x \in set : \A y \in set : y <= x
MinOf(set) == CHOOSE x \in set : \A y \in set : x <= y

\* The match at position i: the first alternative that matches, as far as it
\* goes.  Every repetition of these patterns is greedy and is followed by
\* something it cannot itself consume or by optional items only, so the match
\* the engine finds first is the longest one.  NoInt: no match here.
RECURSIVE MatchAt(_, _, _)
MatchAt(t, i, pattern) ==
    IF Len(pattern) = 0 THEN NoInt
    ELSE LET of(e) == IF e # {} THEN MaxOf(e) ELSE MatchAt(t, i, Tail(pattern))
         IN  of(Ends(t, i, Head(pattern)))

Hit(start, end, value) == [start |-> start, end |-> end, value |-> value]
NoMatch == Hit(NoInt, NoInt, None)

\* pattern.finditer(text): the matches from left to right, none overlapping
RECURSIVE finditer(_, _, _)
finditer(t, pattern, pos) ==
    IF pos > Len(t) THEN <<>>
    ELSE LET of(e) ==
                 IF e = NoInt THEN finditer(t, pattern, pos + 1)
                 ELSE <<Hit(pos, e, Slice(t, pos, e))>> \o finditer(t, pattern, Max(e, pos + 1))
         IN  of(MatchAt(t, pos, pattern))

extract_all_with_pos(text, pattern) == finditer(text, pattern, 0)

\* a slip that takes the top of the text when the pattern is not found
search_or_top(text, pattern) ==
    LET of(hits) == IF Len(hits) = 0 THEN Hit(0, 0, <<>>) ELSE hits[1]
    IN  of(finditer(text, pattern, 0))

\* pattern.search(text): the leftmost match, or NoMatch for None
search(text, pattern) ==
    LET of(hits) == IF Len(hits) = 0 THEN NoMatch ELSE hits[1]
    IN  of(finditer(text, pattern, 0))

MONEY_REGEX ==
    <<Lit(<<"$">>) \o Space0 \o <<Cls(Digits, 1, 3)>> \o
        <<Grp(<<Cls({" ", ","}, 1, 1), Cls(Digits, 3, 3)>>, 0, Many)>> \o
        <<Grp(<<Cls({"."}, 1, 1), Cls(Digits, 2, 2)>>, 0, 1)>>>>

PCT_REGEX ==
    <<<<WordB>> \o <<Cls(Digits, 1, 3)>> \o
        <<Grp(<<Cls({"."}, 1, 1), Cls(Digits, 1, Many)>>, 0, 1)>> \o Space0 \o Lit(<<"%">>) \o
        <<WordB>>>>

ANCHOR_CAPITAL ==
    <<Lit(<<"h","a","y","c","a","s","h">>) \o Space1 \o Lit(<<"s","e">>) \o Space1 \o
        Lit(<<"o","b","l","i","g","a">>) \o Space1 \o Lit(<<"a">>) \o Space1 \o
        Lit(<<"t","r","a","n","s","f","e","r","i","r">>),
      Lit(<<"c","a","n","t","i","d","a","d">>) \o Space1 \o Lit(<<"d","e">>) \o Space1 \o
        Lit(<<"$">>),
      Lit(<<"(">>) \o Space0 \o Lit(<<"e","l">>) \o Space1 \o <<Cls(OpenQuote, 1, 1)>> \o
        Lit(<<"a","n","t","i","c","i","p","o">>) \o <<Cls(CloseQuote, 1, 1)>> \o Space0 \o
        Lit(<<")">>),
      <<WordB>> \o Lit(<<"e","l">>) \o Space1 \o <<Cls(OpenQuote, 1, 1)>> \o
        Lit(<<"a","n","t","i","c","i","p","o">>) \o <<Cls(CloseQuote, 1, 1)>> \o <<WordB>>>>

ANCHOR_CPA ==
    <<Lit(<<"c","o","m","i","s","i">>) \o <<Cls({"o", "ó"}, 1, 1)>> \o Lit(<<"n">>) \o Space1 \o
        Lit(<<"p","o","r">>) \o Space1 \o Lit(<<"a","p","e","r","t","u","r","a">>),
      Lit(<<"c","o","m","i","s","i">>) \o <<Cls({"o", "ó"}, 1, 1)>> \o Lit(<<"n">>) \o Space1 \o
        Lit(<<"d","e">>) \o Space1 \o Lit(<<"a","p","e","r","t","u","r","a">>)>>

ANCHOR_MONTO_MINIMO_MENSUAL ==
    <<Lit(<<"(">>) \o Space0 \o Lit(<<"e","l">>) \o Space1 \o <<Cls(OpenQuote, 0, 1)>> \o
        Lit(<<"m","o","n","t","o">>) \o Space1 \o Lit(<<"m">>) \o <<Cls({"i", "í"}, 1, 1)>> \o
        Lit(<<"n","i","m","o">>) \o Space1 \o Lit(<<"m","e","n","s","u","a","l">>) \o
        <<Cls(CloseQuote, 0, 1)>> \o Space0 \o Lit(<<")">>)>>

LeftSamples ==
    {<<>>,
     <<"$","3","3"," ","y"," ","$","1","1"," ">>,
     <<"p","a","g","a","r"," ","$","1",",","2","3","4",".","5","6"," ","o"," ","$"," ","5","0","0"," ","d","e"," ">>,
     <<"5","%","a"," ","1","2",".","5"," ","%","x"," ">>,
     <<"t","a","s","a"," ","1","0"," ","%"," ","y"," ","7","%","z"," ">>}

AnchorSamples ==
    {<<"s","i","n"," ","c","l","a","u","s","u","l","a">>,
     <<"c","o","m","i","s","i","o","n"," ","p","o","r"," ","a","p","e","r","t","u","r","a">>,
     <<"C","a","n","t","i","d","a","d"," ","d","e"," ","$">>,
     <<"(","e","l"," ","«","m","o","n","t","o"," ","m","í","n","i","m","o"," ","m","e","n","s","u","a","l","»",")">>,
     <<"("," ","e","l"," ","m","o","n","t","o"," ","m","i","n","i","m","o"," ","m","e","n","s","u","a","l"," ",")">>}

RightSamples ==
    {<<>>,
     <<" ","$","2","2"," ","m","a","s">>,
     <<" ","$","3",",","0","0","0"," ","y"," ","$"," ","4","5",".","1","0">>,
     <<" ","9","%","b">>,
     <<" ","c","o","m","i","s","i","ó","n"," ","d","e"," ","a","p","e","r","t","u","r","a"," ","$","7","7"," ","y"," ","3",".","5","%","c">>}

ContractTexts == {l \o a \o r : l \in LeftSamples, a \in AnchorSamples, r \in RightSamples}

\* the callers pass 1200, 1400, 900 and 2400; the small windows cut the samples
Windows == {0, 3, 4, 12, 1200}
Prefers == {"nearest", "first", "last"}
AnchorNames == {"capital", "cpa"}
AnchorOf(name) == IF name = "capital" THEN ANCHOR_CAPITAL ELSE ANCHOR_CPA

Abs(n) == IF n < 0 THEN 0 - n ELSE n

\* a slip that takes the whole text as the window
whole_text_window(text, a_start, a_end, window) == [chunk |-> text, start |-> 0]

\* lines 126-133; window is never negative here
_window_around_anchor(text, a_start, a_end, window) ==
    LET start == Max(0, a_start - window)
        end == Min(Len(text), a_end + window)
    IN  [chunk |-> Slice(text, start, end), start |-> start]

\* min(hits, key=...): the first of the hits with the least key
min_by_key(hits, key(_)) ==
    hits[CHOOSE j \in DOMAIN hits :
            /\ \A m \in DOMAIN hits : key(hits[j]) <= key(hits[m])
            /\ \A m \in DOMAIN hits : m < j => key(hits[m]) > key(hits[j])]

\* lines 145-154 and 168-177.  The centres are halves; the key is doubled.
pick_near(hits, prefer, a, chunk_start) ==
    IF prefer = "first" THEN hits[1]
    ELSE IF prefer = "last" THEN hits[Len(hits)]
    ELSE LET key(h) == Abs((h.start + h.end) - ((a.start + a.end) - 2 * chunk_start))
         IN  min_by_key(hits, key)

Extracted(value, chunk) == [value |-> value, chunk |-> chunk, raised |-> FALSE]

value_near(text, anchor_regex, value_regex, window, prefer) ==
    LET in_chunk(a, w) ==
            LET of(hits) ==
                    IF Len(hits) = 0 THEN Extracted(None, w.chunk)
                    ELSE Extracted(Strip(pick_near(hits, prefer, a, w.start).value), w.chunk)
            IN  of(extract_all_with_pos(w.chunk, value_regex))
        of(a) ==
            IF a = NoMatch THEN Extracted(None, None)
            ELSE in_chunk(a, _window_around_anchor(text, a.start, a.end, window))
    IN  of(search(text, anchor_regex))

extract_money_near(text, anchor_regex, window, prefer) ==
    value_near(text, anchor_regex, MONEY_REGEX, window, prefer)

extract_pct_near(text, anchor_regex, window, prefer) ==
    value_near(text, anchor_regex, PCT_REGEX, window, prefer)

extract_money_just_before_monto_minimo_mensual(text, window) ==
    LET in_chunk(chunk) ==
            LET of(hits) ==
                    IF Len(hits) = 0 THEN Extracted(None, chunk)
                    ELSE Extracted(Strip(hits[Len(hits)].value), chunk)
            IN  of(extract_all_with_pos(chunk, MONEY_REGEX))
        of(a) ==
            IF a = NoMatch THEN Extracted(None, None)
            ELSE in_chunk(Slice(text, Max(0, a.start - window), a.start))
    IN  of(search(text, ANCHOR_MONTO_MINIMO_MENSUAL))

InitNear ==
    /\ pc = "contract"
    /\ contract \in ContractTexts
    /\ found = NoCall
    /\ applied = NoCall
    /\ ReportIdle
    /\ DownloadIdle
    /\ BbvaIdle
    /\ LaterIdle
    /\ ParserIdle
    /\ MatcherIdle
    /\ BatchIdle

NearCall(op, anchor, window, prefer, ret) ==
    [op |-> op, anchor |-> anchor, window |-> window, prefer |-> prefer, ret |-> ret]

MoneyNear ==
    /\ pc = "contract"
    /\ \E a \in AnchorNames, w \in Windows, p \in Prefers :
          found' = NearCall("money_near", a, w, p, extract_money_near(contract, AnchorOf(a), w, p))
    /\ pc' = "extracted"
    /\ UNCHANGED contract
    /\ UNCHANGED <<parserVars, matcherVars, batchVars, applied, report, downloadVars, bbva, laterVars>>

PctNear ==
    /\ pc = "contract"
    /\ \E a \in AnchorNames, w \in Windows, p \in Prefers :
          found' = NearCall("pct_near", a, w, p, extract_pct_near(contract, AnchorOf(a), w, p))
    /\ pc' = "extracted"
    /\ UNCHANGED contract
    /\ UNCHANGED <<parserVars, matcherVars, batchVars, applied, report, downloadVars, bbva, laterVars>>

MoneyBeforeMinimo ==
    /\ pc = "contract"
    /\ \E w \in Windows :
          found' = NearCall("money_before", "minimo", w, "last",
                           extract_money_just_before_monto_minimo_mensual(contract, w))
    /\ pc' = "extracted"
    /\ UNCHANGED contract
    /\ UNCHANGED <<parserVars, matcherVars, batchVars, applied, report, downloadVars, bbva, laterVars>>

NextNear == MoneyNear \/ PctNear \/ MoneyBeforeMinimo

SpecNear == InitNear /\ [][NextNear]_vars

\* What the two claims speak of, read off the text itself.
AnchorStarts(t, pattern) ==
    {i \in 0..Len(t) : \E j \in DOMAIN pattern : Ends(t, i, pattern[j]) # {}}
AnchorPattern == IF found.anchor = "minimo" THEN ANCHOR_MONTO_MINIMO_MENSUAL ELSE AnchorOf(found.anchor)
ValuePattern == IF found.op = "pct_near" THEN PCT_REGEX ELSE MONEY_REGEX
AnchorOccurs == AnchorStarts(contract, AnchorPattern) # {}
FirstAnchorStart == MinOf(AnchorStarts(contract, AnchorPattern))
FirstAnchorEnd == MatchAt(contract, FirstAnchorStart, AnchorPattern)
WindowLo == Max(0, FirstAnchorStart - found.window)
WindowHi ==
    IF found.op = "money_before" THEN FirstAnchorStart
    ELSE Min(Len(contract), FirstAnchorEnd + found.window)
\* the value matches of the window, placed in the text
WindowHits ==
    {[start |-> h.start + WindowLo, end |-> h.end + WindowLo, value |-> h.value] :
        h \in Range(finditer(Slice(contract, WindowLo, WindowHi), ValuePattern, 0))}

\* C11: whenever an extractor was called and the anchor does not occur in the
\* text, or no value pattern matches inside the window, the value it returned
\* is none and it did not raise.
C11_NoneWithoutAnchorOrValue ==
    found.op # "none" =>
        ((~AnchorOccurs \/ WindowHits = {}) => found.ret.value = None /\ ~found.ret.raised)

\* a text that holds a value, out of reach of the anchor that occurs in it
C11_Witness ==
    /\ found.op # "none"
    /\ finditer(contract, ValuePattern, 0) # <<>>
    /\ found.ret.value = None
    /\ AnchorOccurs
    /\ WindowHits = {}

Centre2(h) == h.start + h.end
Off(h) == Abs(Centre2(h) - (FirstAnchorStart + FirstAnchorEnd))
Chosen(h) ==
    /\ h \in WindowHits
    /\ WindowLo <= h.start
    /\ h.end <= WindowHi
    /\ found.prefer = "first" => \A g \in WindowHits : h.start <= g.start
    /\ found.prefer = "last" => \A g \in WindowHits : g.start <= h.start
    /\ found.prefer = "nearest" =>
          \A g \in WindowHits : Off(h) < Off(g) \/ (Off(h) = Off(g) /\ h.start <= g.start)

\* C12: whenever extract_money_near or extract_pct_near was called on a text
\* where the anchor occurs and the window around its first occurrence holds a
\* value match, the value returned is a match lying within the window: the
\* leftmost for prefer=first, the rightmost for prefer=last, otherwise the one
\* whose centre is closest to the anchor's centre, the leftmost on a tie.
C12_PickWithinWindow ==
    (found.op \in {"money_near", "pct_near"} /\ AnchorOccurs /\ WindowHits # {}) =>
        \E h \in WindowHits : Chosen(h) /\ found.ret.value = h.value

\* two matches at the same distance on either side of the anchor, with
\* different values, and a match of the text left outside the window
C12_Witness ==
    /\ found.op = "money_near"
    /\ found.prefer = "nearest"
    /\ AnchorOccurs
    /\ \E h, g \in WindowHits : h.start < g.start /\ Off(h) = Off(g) /\ h.value # g.value
                                 /\ \A f \in WindowHits : Off(h) <= Off(f)
    /\ \E h \in Range(finditer(contract, MONEY_REGEX, 0)) : h.end <= WindowLo

(***************************************************************************)
(* The century rule and the birthdays, called on their own.  The current   *)
(* two-digit year is whatever the day of the run makes it.                 *)
(***************************************************************************)
TwoDigits == {<<a, b>> : a \in Digits, b \in Digits}
YearArgs == TwoDigits \cup {<<>>, <<"8">>, <<"8","X">>, <<"A","B">>}
DaySamples == {<<"0","1","0","1">>, <<"1","2","3","1">>}
RfcArgs ==
    {<<"M","U","N","O">> \o yy \o md \o <<"A","B","1">> : yy \in TwoDigits, md \in DaySamples}
    \cup {None, <<>>, <<"A","B","C","8","5","0","1","0","1","X","X","X">>,
          <<"M","U","N","O","8","5","0","1","0","1","A","B","1","9">>,
          <<"M","U","N","O","-","8","5","0","1","0","1","-","A","B","1">>,
          <<"M","U","Ñ","O","8","5","0","1","0","1","A","B","1">>,
          <<"M","U","N","O","8","5","E","N","0","1","A","B","1">>,
          <<"M","U","N","O","X","X","0","1","0","1","A","B","1">>}
CurpArgs ==
    {<<"M","U","N","O">> \o yy \o md \o <<"H","D","F","R","N","N","0","9">> :
         yy \in TwoDigits, md \in DaySamples}
    \cup {None, <<>>, <<"M","U","N","O","8","5","0","1","0">>,
          <<"M","U","N","O","8","5","0","1","0","1">>,
          <<"M","U","N","O","8","5","0","1","X","1","H","D","F">>}

InitBirth ==
    /\ pc = "birth"
    /\ today_yy \in 0..99
    /\ doc = BlankText
    /\ parsed = None
    /\ applied = NoCall
    /\ ReportIdle
    /\ DownloadIdle
    /\ BbvaIdle
    /\ LaterIdle
    /\ ContractIdle
    /\ MatcherIdle
    /\ BatchIdle

Called(op, arg, ret) == [op |-> op, arg |-> arg, ret |-> ret]

InferCentury ==
    /\ pc = "birth"
    /\ \E yy \in YearArgs : applied' = Called("infer_century", yy, infer_century(yy, today_yy))
    /\ pc' = "returned"
    /\ UNCHANGED <<parserVars, matcherVars, batchVars, contractVars, report, downloadVars, bbva, laterVars>>

BirthdayFromRfc ==
    /\ pc = "birth"
    /\ \E rfc \in RfcArgs : applied' = Called("birthday_from_rfc", rfc, birthday_from_rfc(rfc, today_yy))
    /\ pc' = "returned"
    /\ UNCHANGED <<parserVars, matcherVars, batchVars, contractVars, report, downloadVars, bbva, laterVars>>

BirthdayFromCurp ==
    /\ pc = "birth"
    /\ \E curp \in CurpArgs :
          applied' = Called("birthday_from_curp", curp, birthday_from_curp(curp, today_yy))
    /\ pc' = "returned"
    /\ UNCHANGED <<parserVars, matcherVars, batchVars, contractVars, report, downloadVars, bbva, laterVars>>

NextBirth == InferCentury \/ BirthdayFromRfc \/ BirthdayFromCurp

SpecBirth == InitBirth /\ [][NextBirth]_vars

\* the two digits at positions a and a + 1 of s, as a number
TwoDigitValue(s, a) == 10 * DigitVal(s[a]) + DigitVal(s[a + 1])
CenturyDigits(y) == IF y > today_yy THEN <<"1","9">> ELSE <<"2","0">>
\* the date the claim describes for the ten leading characters of id
DateWithCentury(id) ==
    CenturyDigits(TwoDigitValue(id, 5)) \o SubSeq(id, 5, 6) \o <<"-">> \o SubSeq(id, 7, 8)
        \o <<"-">> \o SubSeq(id, 9, 10)
Dated(id) == \A j \in 5..10 : id[j] \in Digits
Alnum(id) == id # None /\ \A j \in 1..Len(id) : id[j] \in AsciiAlnum

\* C13: infer_century gives 1900+yy for a two-digit year greater than the
\* current two-digit year and 2000+yy otherwise (so 20yy when they are equal);
\* birthday_from_rfc, for a 13-character RFC, and birthday_from_curp, for a CURP
\* of 10 characters or more, give the date made of that century's year and of
\* the month and day digits.
C13_CenturyRule ==
    /\ (applied.op = "infer_century" /\ applied.arg \in TwoDigits) =>
           applied.ret = (IF TwoDigitValue(applied.arg, 1) > today_yy THEN 1900 ELSE 2000)
                         + TwoDigitValue(applied.arg, 1)
    /\ (applied.op = "birthday_from_rfc" /\ Alnum(applied.arg) /\ Len(applied.arg) = 13 /\ Dated(applied.arg)) =>
           applied.ret = DateWithCentury(applied.arg)
    /\ (applied.op = "birthday_from_curp" /\ Alnum(applied.arg) /\ Len(applied.arg) >= 10 /\ Dated(applied.arg)) =>
           applied.ret = DateWithCentury(applied.arg)

\* an RFC born in the current two-digit year: the boundary of the rule
C13_Witness ==
    /\ applied.op = "birthday_from_rfc"
    /\ Alnum(applied.arg) /\ Len(applied.arg) = 13 /\ Dated(applied.arg)
    /\ TwoDigitValue(applied.arg, 5) = today_yy
    /\ SubSeq(applied.ret, 1, 2) = <<"2","0">>


(***************************************************************************)
(* detect_doc_type, called on its own with texts.  Its two patterns are    *)
(* compiled without re.IGNORECASE and hold capitals only; the text is      *)
(* upper-cased first.                                                      *)
(***************************************************************************)
CSF_KEYWORDS ==
    <<Lit(<<"C","O","N","S","T","A","N","C","I","A"," ","D","E"," ","S","I","T","U","A","C","I">>) \o
        <<Cls({"O", "Ó"}, 1, 1)>> \o Lit(<<"N"," ","F","I","S","C","A","L">>),
      Lit(<<"C">>) \o <<Cls({"É", "E"}, 1, 1)>> \o
        Lit(<<"D","U","L","A"," ","D","E"," ","I","D","E","N","T","I","F","I","C","A","C","I">>) \o
        <<Cls({"O", "Ó"}, 1, 1)>> \o Lit(<<"N"," ","F","I","S","C","A","L">>),
      Lit(<<"S","E","R","V","I","C","I","O"," ","D","E"," ","A","D","M","I","N","I","S","T","R","A","C","I">>) \o
        <<Cls({"O", "Ó"}, 1, 1)>> \o Lit(<<"N"," ","T","R","I","B","U","T","A","R","I","A">>)>>

CFDI_KEYWORDS ==
    <<Lit(<<"C","O","M","P","R","O","B","A","N","T","E"," ","F","I","S","C","A","L"," ","D","I","G","I","T","A","L">>),
      Lit(<<"C","F","D","I">>),
      Lit(<<"F","A","C","T","U","R","A">>),
      Lit(<<"U","S","O"," ","C","F","D","I">>),
      Lit(<<"R","E","C","E","P","T","O","R">>),
      Lit(<<"E","M","I","S","O","R">>)>>

TypePieces ==
    {<<>>,
     <<"C","o","n","s","t","a","n","c","i","a"," ","d","e"," ","S","i","t","u","a","c","i","ó","n"," ","F","i","s","c","a","l">>,
     <<"C","E","D","U","L","A"," ","D","E"," ","I","D","E","N","T","I","F","I","C","A","C","I","O","N"," ","F","I","S","C","A","L">>,
     <<"s","e","r","v","i","c","i","o"," ","d","e"," ","a","d","m","i","n","i","s","t","r","a","c","i","ó","n"," ","t","r","i","b","u","t","a","r","i","a">>,
     <<"F","a","c","t","u","r","a">>,
     <<"u","s","o"," ","c","f","d","i">>,
     <<"E","m","i","s","o","r">>,
     <<"r","e","c","e","p","t","o","r">>,
     <<"c","o","m","p","r","o","b","a","n","t","e"," ","f","i","s","c","a","l"," ","d","i","g","i","t","a","l">>,
     <<"r","e","c","i","b","o"," ","d","e"," ","n","ó","m","i","n","a">>,
     <<"c","o","n","s","t","a","n","c","i","a"," ","d","e"," ","s","i","t","u","a","c","i","o","n">>,
     <<"C",".","F",".","D",".","I",".">>,
     <<"c","é","d","u","l","a"," "," ","d","e"," ","i","d","e","n","t","i","f","i","c","a","c","i","ó","n"," ","f","i","s","c","a","l">>,
     <<"R","F","C">>}

CsfWords ==
    {<<"C","O","N","S","T","A","N","C","I","A"," ","D","E"," ","S","I","T","U","A","C","I","O","N"," ","F","I","S","C","A","L">>,
     <<"C","O","N","S","T","A","N","C","I","A"," ","D","E"," ","S","I","T","U","A","C","I","Ó","N"," ","F","I","S","C","A","L">>,
     <<"C","É","D","U","L","A"," ","D","E"," ","I","D","E","N","T","I","F","I","C","A","C","I","O","N"," ","F","I","S","C","A","L">>,
     <<"C","É","D","U","L","A"," ","D","E"," ","I","D","E","N","T","I","F","I","C","A","C","I","Ó","N"," ","F","I","S","C","A","L">>,
     <<"C","E","D","U","L","A"," ","D","E"," ","I","D","E","N","T","I","F","I","C","A","C","I","O","N"," ","F","I","S","C","A","L">>,
     <<"C","E","D","U","L","A"," ","D","E"," ","I","D","E","N","T","I","F","I","C","A","C","I","Ó","N"," ","F","I","S","C","A","L">>,
     <<"S","E","R","V","I","C","I","O"," ","D","E"," ","A","D","M","I","N","I","S","T","R","A","C","I","O","N"," ","T","R","I","B","U","T","A","R","I","A">>,
     <<"S","E","R","V","I","C","I","O"," ","D","E"," ","A","D","M","I","N","I","S","T","R","A","C","I","Ó","N"," ","T","R","I","B","U","T","A","R","I","A">>}

CfdiWords ==
    {<<"C","O","M","P","R","O","B","A","N","T","E"," ","F","I","S","C","A","L"," ","D","I","G","I","T","A","L">>,
     <<"C","F","D","I">>,
     <<"F","A","C","T","U","R","A">>,
     <<"U","S","O"," ","C","F","D","I">>,
     <<"R","E","C","E","P","T","O","R">>,
     <<"E","M","I","S","O","R">>}

TypeTexts == {None} \cup {a \o <<" ">> \o b : a \in TypePieces, b \in TypePieces}

\* lines 920-922: what the two searches find in the upper-cased text
KeywordsOf(text) ==
    LET of(t) == [csf_kw  |-> search(t, CSF_KEYWORDS) # NoMatch,
                  cfdi_kw |-> search(t, CFDI_KEYWORDS) # NoMatch]
    IN  of(ToUpper(OrEmpty(text)))

InitType ==
    /\ pc = "type"
    /\ applied = NoCall
    /\ ReportIdle
    /\ DownloadIdle
    /\ BbvaIdle
    /\ LaterIdle
    /\ ParserIdle
    /\ ContractIdle
    /\ MatcherIdle
    /\ BatchIdle

DetectDocType ==
    /\ pc = "type"
    /\ \E text \in TypeTexts :
          applied' = Called("detect_doc_type", text, detect_doc_type(KeywordsOf(text)))
    /\ pc' = "returned"
    /\ UNCHANGED <<parserVars, matcherVars, batchVars, contractVars, report, downloadVars, bbva, laterVars>>

NextType == DetectDocType

SpecType == InitType /\ [][NextType]_vars

\* some word of the set is written in the text, whatever the case of its letters
Holds(text, words) ==
    \E w \in words : \E i \in 1..Len(OrEmpty(text)) :
        i + Len(w) - 1 <= Len(OrEmpty(text))
        /\ \A j \in 1..Len(w) : UpperChar(OrEmpty(text)[i + j - 1]) = w[j]

\* C15: detect_doc_type gives "csf" or "cfdi" for every text: "csf" whenever a CSF
\* keyword is present, also next to CFDI keywords; "cfdi" when only CFDI keywords
\* are present; "csf" when neither set of keywords is.
C15_TypeByKeywords ==
    applied.op = "detect_doc_type" =>
        /\ applied.ret \in {"csf", "cfdi"}
        /\ Holds(applied.arg, CsfWords) => applied.ret = "csf"
        /\ (Holds(applied.arg, CfdiWords) /\ ~Holds(applied.arg, CsfWords)) => applied.ret = "cfdi"
        /\ (~Holds(applied.arg, CfdiWords) /\ ~Holds(applied.arg, CsfWords)) => applied.ret = "csf"

\* a text with keywords of both sets
C15_Witness ==
    /\ applied.op = "detect_doc_type"
    /\ Holds(applied.arg, CsfWords)
    /\ Holds(applied.arg, CfdiWords)
    /\ applied.ret = "csf"


(***************************************************************************)
(* The supplier report (apps/factoraje/factoraje_logic.py).  An invoice is *)
(* what the service delivered for it: the fields of its list entry, or the *)
(* attributes of its XML.  Its date is kept as its age in days on the day  *)
(* of the run (NoInt when it has none).                                    *)
(***************************************************************************)
SupplierInvoice ==
    [uuid |-> <<"u","1">>, tipo |-> <<"I">>, emisor_nombre |-> <<"B","e","t","a">>,
     emisor_rfc |-> <<"B","B","B","0","2","0","2","0","2","B","B","2">>,
     receptor_rfc |-> <<"A","A","A","0","1","0","1","0","1","A","A","A">>,
     age |-> 10, total |-> 100, moneda |-> <<"M","X","N">>, tipo_cambio |-> NoInt, metodo |-> <<"P","U","E">>]

SupplierLowerCase ==
    [uuid |-> <<"u","2">>, tipo |-> <<" ","i">>, emisor_nombre |-> None,
     emisor_rfc |-> <<"b","b","b","0","2","0","2","0","2","b","b","2">>,
     receptor_rfc |-> <<"a","a","a","0","1","0","1","0","1","a","a","a">>,
     age |-> 200, total |-> 50, moneda |-> <<"u","s","d">>, tipo_cambio |-> 20, metodo |-> <<"p","p","d">>]

SelfInvoice ==
    [uuid |-> <<"u","3">>, tipo |-> <<"I">>, emisor_nombre |-> <<"A","l","f","a">>,
     emisor_rfc |-> <<"a","a","a","0","1","0","1","0","1","a","a","a">>,
     receptor_rfc |-> <<"A","A","A","0","1","0","1","0","1","A","A","A">>,
     age |-> 10, total |-> 70, moneda |-> <<"M","X","N">>, tipo_cambio |-> NoInt, metodo |-> <<"P","U","E">>]

SelfInvoiceMixed ==
    [uuid |-> <<"u","4">>, tipo |-> <<"I">>, emisor_nombre |-> <<"A","l","f","a">>,
     emisor_rfc |-> <<"A","a","a","0","1","0","1","0","1","a","a","A">>,
     receptor_rfc |-> <<"a","a","a","0","1","0","1","0","1","a","a","a">>,
     age |-> 40, total |-> 30, moneda |-> <<"M","X","N">>, tipo_cambio |-> NoInt, metodo |-> <<"P","P","D">>]

SelfInvoiceSpaced ==
    [uuid |-> <<"u","5">>, tipo |-> <<"I">>, emisor_nombre |-> <<"A","l","f","a">>,
     emisor_rfc |-> <<"a","a","a"," ","0","1","0","1","0","1"," ","a","a","a">>,
     receptor_rfc |-> <<"A","A","A","0","1","0","1","0","1","A","A","A">>,
     age |-> 40, total |-> 30, moneda |-> <<"M","X","N">>, tipo_cambio |-> NoInt, metodo |-> <<"P","P","D">>]

IssuedByTarget ==
    [uuid |-> <<"u","6">>, tipo |-> <<"I">>, emisor_nombre |-> <<"A","l","f","a">>,
     emisor_rfc |-> <<"A","A","A","0","1","0","1","0","1","A","A","A">>,
     receptor_rfc |-> <<"B","B","B","0","2","0","2","0","2","B","B","2">>,
     age |-> 10, total |-> 90, moneda |-> <<"M","X","N">>, tipo_cambio |-> NoInt, metodo |-> <<"P","U","E">>]

CreditNote ==
    [uuid |-> <<"u","7">>, tipo |-> <<"E">>, emisor_nombre |-> <<"B","e","t","a">>,
     emisor_rfc |-> <<"B","B","B","0","2","0","2","0","2","B","B","2">>,
     receptor_rfc |-> <<"A","A","A","0","1","0","1","0","1","A","A","A">>,
     age |-> 10, total |-> 20, moneda |-> <<"M","X","N">>, tipo_cambio |-> NoInt, metodo |-> <<"P","U","E">>]

SupplierSameUuid ==
    [uuid |-> <<"u","3">>, tipo |-> <<"I">>, emisor_nombre |-> <<"B","e","t","a">>,
     emisor_rfc |-> <<"B","B","B","0","2","0","2","0","2","B","B","2">>,
     receptor_rfc |-> <<"A","A","A","0","1","0","1","0","1","A","A","A">>,
     age |-> 100, total |-> 10, moneda |-> <<"U","S","D">>, tipo_cambio |-> NoInt, metodo |-> <<"P","U","E">>]

Unidentified ==
    [uuid |-> None, tipo |-> <<"I">>, emisor_nombre |-> None,
     emisor_rfc |-> None,
     receptor_rfc |-> <<"A","A","A","0","1","0","1","0","1","A","A","A">>,
     age |-> NoInt, total |-> NoInt, moneda |-> None, tipo_cambio |-> NoInt, metodo |-> None]

InvoiceSamples ==
    {SupplierInvoice,
     SupplierLowerCase,
     SelfInvoice,
     SelfInvoiceMixed,
     SelfInvoiceSpaced,
     IssuedByTarget,
     CreditNote,
     SupplierSameUuid,
     Unidentified}

TargetSamples ==
    {<<"A","A","A","0","1","0","1","0","1","A","A","A">>,
     <<"B","B","B","0","2","0","2","0","2","B","B","2">>}

MaxInvoices == 2

\* re.sub(r"\s+", "", str(x)).upper()
Squeezed(x) == ToUpper(SelectSeq(x, LAMBDA c : c \notin Whitespace))
UpperOrNone(x) == IF x = None THEN None ELSE ToUpper(x)
SqueezedOrNone(x) == IF x = None THEN None ELSE Squeezed(x)

\* lines 214-246: the normalised row of one list entry
NormRow(it) ==
    [it EXCEPT !.moneda = UpperOrNone(it.moneda),
               !.metodo = SqueezedOrNone(it.metodo),
               !.tipo = SqueezedOrNone(it.tipo),
               !.emisor_rfc = UpperOrNone(it.emisor_rfc),
               !.receptor_rfc = UpperOrNone(it.receptor_rfc)]

XmlTipos == {<<"I">>, <<"E">>, <<"P">>, <<"N">>, <<"T">>}
\* up() of parse_header_min
up(x) == Squeezed(OrEmpty(x))

\* the one row parse_header_min gives for a well-formed document
parse_header_min(xml) ==
    [xml EXCEPT !.tipo = IF up(xml.tipo) \in XmlTipos THEN up(xml.tipo) ELSE None,
                !.metodo = up(xml.metodo),
                !.moneda = up(xml.moneda),
                !.emisor_rfc = up(xml.emisor_rfc),
                !.receptor_rfc = up(xml.receptor_rfc)]

\* drop_duplicates(subset=["uuid"], keep="first")
RECURSIVE drop_duplicates(_)
drop_duplicates(h) ==
    IF Len(h) = 0 THEN <<>>
    ELSE LET of(init, r) ==
                 IF \E k \in DOMAIN init : init[k].uuid = r.uuid THEN init ELSE Append(init, r)
         IN  of(drop_duplicates(SubSeq(h, 1, Len(h) - 1)), h[Len(h)])

\* a slip that forgets the issuer
keep_received(r, rfc_u) ==
    /\ r.uuid # None /\ r.uuid # <<>>
    /\ ToUpper(OrEmpty(r.receptor_rfc)) = rfc_u
    /\ ToUpper(OrEmpty(r.tipo)) = <<"I">>

\* lines 263-268 and 563-568: the strict filter of the two sources
keep_header(r, rfc_u) ==
    /\ r.uuid # None /\ r.uuid # <<>>
    /\ ToUpper(OrEmpty(r.receptor_rfc)) = rfc_u
    /\ ToUpper(OrEmpty(r.emisor_rfc)) # rfc_u
    /\ ToUpper(OrEmpty(r.tipo)) = <<"I">>

\* acc: the entries the pages of the service delivered
list_invoices_headers_api(acc, rfc) ==
    IF Len(acc) = 0 THEN <<>>
    ELSE drop_duplicates(SelectSeq([k \in DOMAIN acc |-> NormRow(acc[k])],
                                   LAMBDA r : keep_header(r, ToUpper(rfc))))

\* docs: the documents downloaded
headers_from_xml(docs, rfc) ==
    IF Len(docs) = 0 THEN <<>>
    ELSE drop_duplicates(SelectSeq([k \in DOMAIN docs |-> parse_header_min(docs[k])],
                                   LAMBDA r : keep_header(r, ToUpper(rfc))))

INTERVAL_DEFS == <<365, 183, 92, 30>>

\* astype(str).str.upper() of a column that may hold None
StrUpper(x) == IF x = None THEN <<"N","O","N","E">> ELSE ToUpper(x)

\* lines 596-605; start_date is days_back days before end_date, the day of the run
keep_metric(r, days_back, rfc_u) ==
    /\ r.age # NoInt /\ r.age <= days_back /\ r.age >= 0
    /\ r.emisor_rfc # None
    /\ r.receptor_rfc # None
    /\ ToUpper(r.receptor_rfc) = rfc_u
    /\ ToUpper(r.emisor_rfc) # rfc_u
    /\ ToUpper(OrEmpty(r.tipo)) = <<"I">>

\* lines 616-626: None is NoInt
monto_mxn(r) ==
    IF r.total = NoInt THEN NoInt
    ELSE IF StrUpper(r.moneda) = <<"M","X","N">> \/ Strip(StrUpper(r.moneda)) = <<"N","A","N">>
         THEN r.total
    ELSE IF r.tipo_cambio # NoInt /\ r.tipo_cambio > 0 THEN r.total * r.tipo_cambio
    ELSE NoInt

RECURSIVE SumSeq(_)
SumSeq(nums) == IF Len(nums) = 0 THEN 0 ELSE Head(nums) + SumSeq(Tail(nums))

\* the provider rows, one per (emisor_rfc, emisor_nombre); {} for None
metrics_by_interval(h, days_back, rfc_target, excluir_fx_desconocido) ==
    LET name(r) == IF r.emisor_nombre # None THEN r.emisor_nombre ELSE r.emisor_rfc
        grouped(hh) ==
            {[emisor_rfc |-> key[1], emisor_nombre |-> key[2],
              count |-> SumSeq([k \in DOMAIN hh |->
                                  IF <<hh[k].emisor_rfc, name(hh[k])>> = key /\ hh[k].uuid # None
                                  THEN 1 ELSE 0]),
              monto |-> SumSeq([k \in DOMAIN hh |->
                                  IF <<hh[k].emisor_rfc, name(hh[k])>> = key /\ monto_mxn(hh[k]) # NoInt
                                  THEN monto_mxn(hh[k]) ELSE 0])] :
                key \in {<<hh[k].emisor_rfc, name(hh[k])>> : k \in DOMAIN hh}}
        known(hh) ==
            IF excluir_fx_desconocido THEN SelectSeq(hh, LAMBDA r : monto_mxn(r) # NoInt) ELSE hh
    IN  IF Len(h) = 0 THEN {}
        ELSE grouped(known(SelectSeq(h, LAMBDA r : keep_metric(r, days_back, ToUpper(rfc_target)))))

InitReport ==
    /\ pc = "fetched"
    /\ \E rfc \in TargetSamples, source \in {"api", "xml"},
          items \in UNION {[1..n -> InvoiceSamples] : n \in 0..MaxInvoices} :
          report = [rfc |-> rfc, source |-> source, items |-> items, h |-> <<>>, rows |-> {}]
    /\ applied = NoCall
    /\ DownloadIdle
    /\ BbvaIdle
    /\ LaterIdle
    /\ ContractIdle
    /\ ParserIdle
    /\ MatcherIdle
    /\ BatchIdle

\* get_headers
GetHeaders ==
    /\ pc = "fetched"
    /\ report' = [report EXCEPT !.h =
                     IF report.source = "api"
                     THEN list_invoices_headers_api(report.items, report.rfc)
                     ELSE headers_from_xml(report.items, report.rfc)]
    /\ pc' = "headers"
    /\ UNCHANGED <<parserVars, matcherVars, batchVars, contractVars, applied, downloadVars, bbva, laterVars>>

\* one interval of the report
Metrics ==
    /\ pc = "headers"
    /\ \E k \in DOMAIN INTERVAL_DEFS, excluir_fx \in BOOLEAN :
          report' = [report EXCEPT !.rows =
                        metrics_by_interval(report.h, INTERVAL_DEFS[k], report.rfc, excluir_fx)]
    /\ pc' = "metrics"
    /\ UNCHANGED <<parserVars, matcherVars, batchVars, contractVars, applied, downloadVars, bbva, laterVars>>

\* metrics_by_interval on its own, given the frame of everything delivered
MetricsOfFrame ==
    /\ pc = "fetched"
    /\ \E k \in DOMAIN INTERVAL_DEFS, excluir_fx \in BOOLEAN :
          report' = [report EXCEPT !.rows =
                        metrics_by_interval([j \in DOMAIN report.items |-> NormRow(report.items[j])],
                                            INTERVAL_DEFS[k], report.rfc, excluir_fx)]
    /\ pc' = "metrics"
    /\ UNCHANGED <<parserVars, matcherVars, batchVars, contractVars, applied, downloadVars, bbva, laterVars>>

NextReport == GetHeaders \/ Metrics \/ MetricsOfFrame

SpecReport == InitReport /\ [][NextReport]_vars

SameRfc(a, b) == a # None /\ ToLower(a) = ToLower(b)
SelfIssued(it) == SameRfc(it.emisor_rfc, report.rfc)
\* the row is the row of the invoice it
RowOf(r, it) ==
    /\ r.uuid = it.uuid
    /\ SelectSeq(ToLower(OrEmpty(r.emisor_rfc)), LAMBDA c : c \notin Whitespace)
         = SelectSeq(ToLower(OrEmpty(it.emisor_rfc)), LAMBDA c : c \notin Whitespace)

\* C16: no row of the headers either source gives, and no provider row of
\* metrics_by_interval, belongs to an invoice whose issuer RFC is the target RFC
\* in any case of its letters, whoever its receiver is: every row of the headers
\* is the row of a delivered invoice that the target did not issue.
C16_NoSelfInvoices ==
    /\ \A k \in DOMAIN report.h :
          /\ ~SameRfc(report.h[k].emisor_rfc, report.rfc)
          /\ \E j \in DOMAIN report.items :
                RowOf(report.h[k], report.items[j]) /\ ~SelfIssued(report.items[j])
    /\ \A g \in report.rows : ~SameRfc(g.emisor_rfc, report.rfc)

\* metrics_by_interval was given a frame that holds an invoice the target issued
\* to itself within the interval, next to invoices of a supplier
C16_Witness ==
    /\ pc = "metrics"
    /\ report.h = <<>>
    /\ report.rows # {}
    /\ \E j \in DOMAIN report.items :
          /\ SelfIssued(report.items[j])
          /\ SameRfc(report.items[j].receptor_rfc, report.rfc)
          /\ report.items[j].age <= 30


(***************************************************************************)
(* download_xmls_parallel: the calling thread submits one task per URL to  *)
(* a thread pool and collects the futures as they complete; each task runs *)
(* http_get_xml_flex.  With one URL or none the calling thread runs the    *)
(* tasks itself.  A step of task w is a step of a worker thread exactly    *)
(* when there are two URLs or more.                                        *)
(***************************************************************************)
MaxUrls == 2

\* what sess.get does: it raises, or gives a response
Responses ==
    {[raises |-> TRUE,  status |-> NoInt, xml |-> FALSE],
     [raises |-> FALSE, status |-> 200,   xml |-> TRUE],
     [raises |-> FALSE, status |-> 200,   xml |-> FALSE],
     [raises |-> FALSE, status |-> 404,   xml |-> TRUE]}
NoResponse == [raises |-> FALSE, status |-> NoInt, xml |-> FALSE]

UrlOf(w) == <<"u", w>>
\* the body of the document at a URL
BodyOf(w) == <<"x", "m", "l", w>>

\* line 55
ApiMonAtImport == [last_ok |-> FALSE, last_status |-> NoInt, last_url |-> None]

\* lines 423-430: the body when the status is 2xx and the content is XML, else None
XmlOrNone(w, r) ==
    IF ~r.raises /\ 200 <= r.status /\ r.status < 300 /\ r.xml THEN BodyOf(w) ELSE None

InitDownload ==
    /\ pc = "download"
    /\ \E n \in 0..MaxUrls :
          xmls = [n |-> n, at |-> [w \in 1..n |-> "queued"], resp |-> [w \in 1..n |-> NoResponse],
                  holder |-> 0, out |-> <<>>]
    /\ _api_mon = ApiMonAtImport
    /\ applied = NoCall
    /\ ReportIdle
    /\ ContractIdle
    /\ BbvaIdle
    /\ LaterIdle
    /\ ParserIdle
    /\ MatcherIdle
    /\ BatchIdle

Rest == <<parserVars, matcherVars, batchVars, contractVars, applied, report, bbva, laterVars>>

\* line 418: sess.get(url, ...)
Get(w) ==
    /\ xmls.at[w] = "queued"
    /\ \E r \in Responses :
          xmls' = [xmls EXCEPT !.at[w] = "lock", !.resp[w] = r]
    /\ UNCHANGED <<pc, _api_mon>>
    /\ UNCHANGED Rest

\* line 58: with _api_mon_lock
Lock(w) ==
    /\ xmls.at[w] = "lock"
    /\ xmls.holder = 0
    /\ xmls' = [xmls EXCEPT !.at[w] = "write", !.holder = w]
    /\ UNCHANGED <<pc, _api_mon>>
    /\ UNCHANGED Rest

\* lines 59-61, from line 419 or line 421
Write(w) ==
    /\ xmls.at[w] = "write"
    /\ _api_mon' = IF xmls.resp[w].raises
                   THEN [last_ok |-> FALSE, last_status |-> NoInt, last_url |-> UrlOf(w)]
                   ELSE [last_ok |-> TRUE, last_status |-> xmls.resp[w].status, last_url |-> UrlOf(w)]
    /\ xmls' = [xmls EXCEPT !.at[w] = "unlock"]
    /\ UNCHANGED pc
    /\ UNCHANGED Rest

Unlock(w) ==
    /\ xmls.at[w] = "unlock"
    /\ xmls' = [xmls EXCEPT !.at[w] = "return", !.holder = 0]
    /\ UNCHANGED <<pc, _api_mon>>
    /\ UNCHANGED Rest

\* lines 422-430: the task returns; its future completes
Return(w) ==
    /\ xmls.at[w] = "return"
    /\ xmls' = [xmls EXCEPT !.at[w] = "done"]
    /\ UNCHANGED <<pc, _api_mon>>
    /\ UNCHANGED Rest

\* lines 455-459 (line 447 with one URL): the calling thread takes a completed result
Collect(w) ==
    /\ xmls.at[w] = "done"
    /\ xmls' = [xmls EXCEPT !.at[w] = "collected",
                            !.out = IF XmlOrNone(w, xmls.resp[w]) # None
                                    THEN Append(@, XmlOrNone(w, xmls.resp[w])) ELSE @]
    /\ UNCHANGED <<pc, _api_mon>>
    /\ UNCHANGED Rest

\* line 461 (line 448): return out
Finish ==
    /\ pc = "download"
    /\ \A w \in 1..xmls.n : xmls.at[w] = "collected"
    /\ pc' = "downloaded"
    /\ UNCHANGED <<xmls, _api_mon>>
    /\ UNCHANGED Rest

TaskStep(w) == Get(w) \/ Lock(w) \/ Write(w) \/ Unlock(w) \/ Return(w)

NextDownload ==
    \/ \E w \in 1..xmls.n : Get(w)
    \/ \E w \in 1..xmls.n : Lock(w)
    \/ \E w \in 1..xmls.n : Write(w)
    \/ \E w \in 1..xmls.n : Unlock(w)
    \/ \E w \in 1..xmls.n : Return(w)
    \/ \E w \in 1..xmls.n : Collect(w)
    \/ Finish

SpecDownload == InitDownload /\ [][NextDownload]_vars

\* C17: during download_xmls_parallel no step of a worker thread changes state
\* shared between the threads (the monitor _api_mon, the list of results): a
\* worker only computes its own result, and only the calling thread adds to out.
C17_WorkersWriteNothingShared ==
    [][\A w \in 1..xmls.n :
          (xmls.n > 1 /\ TaskStep(w)) => (_api_mon' = _api_mon /\ xmls'.out = xmls.out)]_vars

(***************************************************************************)
(* The BBVA direct-debit file (apps/diegobbva/codigo_diego.py): the table  *)
(* of charges is written as one header, one detail per row and one        *)
(* summary.  A byte of the file is written as the Latin-1 character it     *)
(* decodes to; a character outside Latin-1 is written as its code point.   *)
(***************************************************************************)
BUSINESS_EMISOR_STR == <<"B","A","N","C","O"," ","A","C","T","I","N","V","E","R"," ","S","A"," ","I","B","M"," ","P","O","R"," ","C","T","A"," ","F","I","D"," ","6","0","1","1"," "," ","P","B","I","*","0","6","1","1","1","5","S","C","6">>
RFC_EMISOR_DEFAULT == <<"P","B","I","*","0","6","1","1","1","5","S","C","6">>
TITULAR_DEFAULT == <<"H","A","Y","C","A","S","H"," ","S","A","P","I"," ","D","E"," ","C","V">>
BLOQUE_DEFAULT == <<"1","2","0","0","0","0">>

RecordBytes == 300
CRLF == <<"\r", "\n">>

\* characters outside Latin-1: the euro sign, and the capital of y with diaeresis
NonLatin1 == {"U+20AC", "U+0178"}

Spaces(n) == [k \in 1..n |-> " "]
Zeros(n) == [k \in 1..n |-> "0"]
ljust(s, width) == IF Len(s) >= width THEN s ELSE s \o Spaces(width - Len(s))
zfill(s, width) == IF Len(s) >= width THEN s ELSE Zeros(width - Len(s)) \o s

\* str.upper(): the sharp s becomes two letters, the y with diaeresis leaves Latin-1
RECURSIVE upper(_)
upper(s) ==
    IF s = <<>> THEN <<>>
    ELSE (IF Head(s) = "ß" THEN <<"S", "S">>
          ELSE IF Head(s) = "ÿ" THEN <<"U+0178">>
          ELSE <<UpperChar(Head(s))>>) \o upper(Tail(s))

\* str(n) of an int n >= 0
RECURSIVE IntStr(_)
IntStr(n) == IF n < 10 THEN <<DigitChars[n + 1]>> ELSE IntStr(n \div 10) \o <<DigitChars[(n % 10) + 1]>>

\* f"{n:0{width}d}"
FormatD(n, width) ==
    IF n < 0 THEN <<"-">> \o zfill(IntStr(0 - n), width - 1) ELSE zfill(IntStr(n), width)

\* line.encode("latin-1", errors="replace")
encode_latin1(line) == [k \in 1..Len(line) |-> IF line[k] \in NonLatin1 THEN "?" ELSE line[k]]

pad_only(line) ==
    LET of(b) == IF Len(b) < RecordBytes THEN b \o Spaces(RecordBytes - Len(b)) ELSE b
    IN  of(encode_latin1(line))

to_fixed_300_bytes(line) ==
    LET of(b) == IF Len(b) < RecordBytes THEN b \o Spaces(RecordBytes - Len(b))
                 ELSE IF Len(b) > RecordBytes THEN SubSeq(b, 1, RecordBytes)
                 ELSE b
    IN  of(encode_latin1(line))

RECURSIVE write_from(_, _, _)
write_from(lines, i, final_crlf) ==
    IF i > Len(lines) THEN <<>>
    ELSE to_fixed_300_bytes(lines[i])
         \o (IF i < Len(lines) \/ final_crlf THEN CRLF ELSE <<>>)
         \o write_from(lines, i + 1, final_crlf)

write_fixed_file(lines, final_crlf) == write_from(lines, 1, final_crlf)

\* str.isdigit() holds of the superscript digits of Latin-1 too
IsDigit == Digits \cup {"¹", "²", "³"}

only_digits(s) == SelectSeq(s, LAMBDA ch : ch \in IsDigit)

\* a slip that keeps the first digits of a numeral that is too long
n_width_first_digits(s, width) ==
    LET of(d) == zfill(IF Len(d) > width THEN SubSeq(d, 1, width) ELSE d, width)
    IN  of(only_digits(s))

n_width_digits(s, width) ==
    LET of(d) == zfill(IF Len(d) > width THEN SubSeq(d, Len(d) - width + 1, Len(d)) ELSE d, width)
    IN  of(only_digits(s))

header(fecha, bloque) ==
    <<"0","1">> \o FormatD(1, 7) \o <<"3","0">> \o <<"0","1","2">> \o <<"E">> \o <<"2">>
    \o n_width_digits(bloque, 7) \o fecha \o <<"0","1">> \o <<"0","0">> \o Spaces(25)
    \o ljust(Slice(upper(BUSINESS_EMISOR_STR), 0, 40), 40)
    \o ljust(Slice(upper(RFC_EMISOR_DEFAULT), 0, 18), 18)
    \o Spaces(182)

\* float(s) of a plain decimal numeral: optional sign, digits, optional point and
\* digits, blanks around it allowed.  Exponents, inf, nan and underscores are not
\* among the samples.
NoFloat == [ok |-> FALSE, neg |-> FALSE, int |-> <<>>, frac |-> <<>>]

PointAt(s) == IF \E k \in 1..Len(s) : s[k] = "." THEN CHOOSE k \in 1..Len(s) : s[k] = "." ELSE Len(s) + 1

Unsigned(neg, s) ==
    LET of(int, frac) ==
            IF /\ \A k \in 1..Len(int) : int[k] \in Digits
               /\ \A k \in 1..Len(frac) : frac[k] \in Digits
               /\ Len(int) + Len(frac) >= 1
            THEN [ok |-> TRUE, neg |-> neg, int |-> int, frac |-> frac]
            ELSE NoFloat
    IN  of(SubSeq(s, 1, PointAt(s) - 1), SubSeq(s, PointAt(s) + 1, Len(s)))

float(s) ==
    LET of(t) == IF t = <<>> THEN NoFloat
                 ELSE IF Head(t) = "-" THEN Unsigned(TRUE, Tail(t))
                 ELSE IF Head(t) = "+" THEN Unsigned(FALSE, Tail(t))
                 ELSE Unsigned(FALSE, t)
    IN  of(Strip(s))

RECURSIVE DecimalValue(_)
DecimalValue(s) == IF s = <<>> THEN 0 ELSE 10 * DecimalValue(SubSeq(s, 1, Len(s) - 1)) + DigitVal(s[Len(s)])

\* int(round(importe * 100)): exact for a numeral of at most two decimals, which
\* is what the samples of Importe carry
round_x100(x) ==
    LET of(c) == IF x.neg THEN 0 - c ELSE c
    IN  of(100 * DecimalValue(x.int) + DecimalValue(SubSeq(x.frac \o <<"0", "0">>, 1, 2)))

\* int(round(importe * 0.16 * 100)): 0.16 of a whole number of cents is never
\* half-way between two integers
round_iva(x) == (8 * round_x100(x) + 25) \div 50

detail(seq, fecha, importe, ref_num, cliente_id, nombre_cliente, referencia, titular_servicio) ==
    <<"0","2">> \o FormatD(seq, 7) \o <<"3","0">> \o <<"0","1">>
    \o FormatD(round_x100(importe), 15) \o fecha \o Spaces(24) \o <<"5","1">> \o fecha
    \o <<"0","1","2">> \o <<"0","1">>
    \o n_width_digits(cliente_id, 20)
    \o ljust(Slice(upper(nombre_cliente), 0, 40), 40)
    \o ljust(Slice(upper(referencia), 0, 40), 40)
    \o ljust(Slice(upper(titular_servicio), 0, 40), 40)
    \o FormatD(round_iva(importe), 15)
    \o n_width_digits(IntStr(ref_num), 7)
    \o ljust(Slice(upper(referencia), 0, 40), 40)
    \o <<"0","0">> \o Spaces(21)

summary_counting_header(last_detail_seq, num_regs, total_importe_cents, bloque) ==
    <<"0","9">> \o FormatD(last_detail_seq + 1, 7) \o <<"3","0">> \o n_width_digits(bloque, 7)
    \o FormatD(num_regs + 1, 7) \o FormatD(total_importe_cents, 18) \o Spaces(257)

summary(last_detail_seq, num_regs, total_importe_cents, bloque) ==
    <<"0","9">> \o FormatD(last_detail_seq + 1, 7) \o <<"3","0">> \o n_width_digits(bloque, 7)
    \o FormatD(num_regs, 7) \o FormatD(total_importe_cents, 18) \o Spaces(257)

\* the tables read from the spreadsheet, after dtype=str and fillna(""): a row
\* maps the names of the columns the sheet has to strings
ImporteCol == "Importe"
ClienteCol == "ID Cliente"
NombreCol == "Nombre del cliente"
ReferenciaCol == "Referencia"
TitularCol == "Titular del servicio"

RowPlain ==
    (ImporteCol :> <<"1",",","2","3","4",".","5","0">>) @@ (ClienteCol :> <<"1","6","5","1","9","7","5","9","7">>) @@ (NombreCol :> <<"P","e","ñ","a"," ","R","u","i","z">>)
    @@ (ReferenciaCol :> <<"R","e","n","t","a"," ","m","a","r","z","o">>) @@ (TitularCol :> <<>>)
RowOdd ==
    (ImporteCol :> <<" ","-","5"," ">>) @@ (ClienteCol :> <<"A","B","-","1","2","²">>)
    @@ (NombreCol :> <<"C","o","m","e","r","c","i","a","l","i","z","a","d","o","r","a"," ","W","e","i","ß"," ","y"," ","A","s","o","c","i","a","d","o","s"," ","ÿ"," ","U+20AC"," ","S","A"," ","d","e"," ","C","V">>)
    @@ (ReferenciaCol :> <<"P","a","g","o"," ","3">>) @@ (TitularCol :> <<"O","t","r","o"," ","t","i","t","u","l","a","r"," ","S","A">>)
RowNotANumber ==
    (ImporteCol :> <<"a","b","c">>) @@ (ClienteCol :> <<"1","6","5","1","9","7","5","9","7">>) @@ (NombreCol :> <<"S","i","n"," ","m","o","n","t","o">>)
    @@ (ReferenciaCol :> <<>>) @@ (TitularCol :> <<>>)
RowBlank ==
    (ImporteCol :> <<>>) @@ (ClienteCol :> <<>>) @@ (NombreCol :> <<>>)
    @@ (ReferenciaCol :> <<>>) @@ (TitularCol :> <<>>)
RowNameOnly == (NombreCol :> <<"S","o","l","o"," ","n","o","m","b","r","e">>)
RowSamples == {RowPlain, RowOdd, RowNotANumber, RowBlank, RowNameOnly}

MaxRows == 2

RECURSIVE TablesOf(_)
TablesOf(n) ==
    IF n = 0 THEN {<<>>}
    ELSE LET of(shorter) ==
                 shorter \cup {Append(t, r) : t \in {s \in shorter : Len(s) = n - 1},
                                              r \in RowSamples}
         IN  of(TablesOf(n - 1))

\* every row of a table has the columns of the sheet
Tables == {t \in TablesOf(MaxRows) : \A j, k \in 1..Len(t) : DOMAIN t[j] = DOMAIN t[k]}

FechaSamples == {<<>>, <<"2","0","2","6","0","1","1","5">>, <<"2","0","2","6","-","0","1","-","1","5">>}
BloqueSamples == {BLOQUE_DEFAULT, <<"1","2","3","4","5","6","7","8">>}
NowSamples == {<<"2","0","2","6","1","1","0","2">>}
\* the default of the page, and a reference of eight digits whose successor has nine
StartRefSamples == {1204000, 99999999}

\* row.get(col, default)
row_get(row, col, default) == IF col \in DOMAIN row THEN row[col] ELSE default

OrDefault(s, default) == IF s = <<>> THEN default ELSE s

\* float(str(row.get("Importe", "0")).replace(",", "") or "0")
importe_of(row) ==
    float(OrDefault(SelectSeq(row_get(row, ImporteCol, <<"0">>), LAMBDA ch : ch # ","), <<"0">>))

\* what generate_bbva_file leaves: the bytes of the file, or no file when a row raised
generate_bbva_file(df, fecha, start_ref, bloque, now) ==
    LET lines(f, importes) ==
            <<header(f, bloque)>>
            \o [k \in 1..Len(df) |->
                   detail((k - 1) + 2, f, importes[k], start_ref + (k - 1),
                          row_get(df[k], ClienteCol, <<"1","6","5","1","9","7","5","9","7">>),
                          row_get(df[k], NombreCol, <<>>),
                          row_get(df[k], ReferenciaCol, <<>>),
                          OrDefault(row_get(df[k], TitularCol, TITULAR_DEFAULT), TITULAR_DEFAULT))]
            \o <<summary(Len(df) + 1, Len(df),
                         SumSeq([k \in 1..Len(df) |-> round_x100(importes[k])]), bloque)>>
        of(f, importes) ==
            IF \E k \in 1..Len(df) : ~importes[k].ok
            THEN [raised |-> TRUE, file |-> None]
            ELSE [raised |-> FALSE, file |-> write_fixed_file(lines(f, importes), TRUE)]
    IN  of(IF Strip(fecha) = <<>> THEN now ELSE fecha, [k \in 1..Len(df) |-> importe_of(df[k])])

InitBbva ==
    /\ pc = "bbva"
    /\ \E df \in Tables, fecha \in FechaSamples, start_ref \in StartRefSamples,
          bloque \in BloqueSamples :
          bbva = [df |-> df, fecha |-> fecha, start_ref |-> start_ref, bloque |-> bloque,
                  raised |-> FALSE, file |-> None]
    /\ ContractIdle
    /\ applied = NoCall
    /\ ReportIdle
    /\ DownloadIdle
    /\ LaterIdle
    /\ ParserIdle
    /\ MatcherIdle
    /\ BatchIdle

GenerateBbvaFile ==
    /\ pc = "bbva"
    /\ \E now \in NowSamples :
          LET of(r) == bbva' = [bbva EXCEPT !.raised = r.raised, !.file = r.file]
          IN  of(generate_bbva_file(bbva.df, bbva.fecha, bbva.start_ref, bbva.bloque, now))
    /\ pc' = "generated"
    /\ UNCHANGED <<parserVars, matcherVars, batchVars, contractVars, applied, report, downloadVars, laterVars>>

NextBbva == GenerateBbvaFile
SpecBbva == InitBbva /\ [][NextBbva]_vars

\* record r of the written file, its terminator, and columns a..b of the record
RecordAt(r) == SubSeq(bbva.file, (RecordBytes + 2) * (r - 1) + 1, (RecordBytes + 2) * (r - 1) + RecordBytes)
TerminatorAt(r) == SubSeq(bbva.file, (RecordBytes + 2) * (r - 1) + RecordBytes + 1, (RecordBytes + 2) * r)
Field(r, a, b) == SubSeq(RecordAt(r), a, b)

\* a field holds a zero-padded decimal numeral, with a leading minus sign at most
IsNumeral(s) ==
    /\ Len(s) >= 1
    /\ \A k \in 2..Len(s) : s[k] \in Digits
    /\ s[1] \in Digits \cup {"-"}
NumeralValue(s) == IF s[1] = "-" THEN 0 - DecimalValue(Tail(s)) ELSE DecimalValue(s)
Holding(s, n) == IsNumeral(s) /\ NumeralValue(s) = n

\* C19: a written file holds n + 2 records for a table of n rows: a header, the
\* n details in the order of the rows (detail k numbered k + 1 and carrying the
\* amount of row k), and a summary; every record is 300 Latin-1 bytes followed
\* by CR LF.
C19_RecordsOf300Bytes ==
    bbva.file # None =>
        LET n == Len(bbva.df) IN
        /\ Len(bbva.file) = (n + 2) * (RecordBytes + 2)
        /\ \A r \in 1..(n + 2) : TerminatorAt(r) = CRLF
        /\ \A k \in 1..Len(bbva.file) : bbva.file[k] \notin NonLatin1
        /\ Field(1, 1, 2) = <<"0", "1">>
        /\ \A k \in 1..n :
              /\ Field(k + 1, 1, 2) = <<"0", "2">>
              /\ Holding(Field(k + 1, 3, 9), k + 1)
              /\ Holding(Field(k + 1, 14, 28), round_x100(importe_of(bbva.df[k])))
        /\ Field(n + 2, 1, 2) = <<"0", "9">>

\* a file of two details was written from names outside Latin-1 and a date of
\* ten characters, which makes every line longer than a record
C19_Witness ==
    /\ pc = "generated"
    /\ bbva.file # None
    /\ Len(bbva.df) = 2
    /\ Len(bbva.fecha) > 8
    /\ \E k \in 1..2 : bbva.df[k] = RowOdd

\* C20: in a written file the summary carries operation code 30, the block of
\* the header, the number of detail records as its count and the sum of the
\* amounts of the detail records, in cents, as its total.
C20_SummaryAgreesWithDetails ==
    bbva.file # None =>
        LET final == Len(bbva.file) \div (RecordBytes + 2)
            details == {r \in 1..(Len(bbva.file) \div (RecordBytes + 2)) : Field(r, 1, 2) = <<"0", "2">>}
        IN
        /\ Field(final, 1, 2) = <<"0", "9">>
        /\ Field(final, 10, 11) = <<"3", "0">>
        /\ Field(final, 12, 18) = Field(1, 17, 23)
        /\ \A k \in 1..7 : Field(final, 12, 18)[k] \in IsDigit
        /\ Holding(Field(final, 19, 25), Cardinality(details))
        /\ \A r \in details : IsNumeral(Field(r, 14, 28))
        /\ Holding(Field(final, 26, 43),
                   SumSeq([k \in 1..(final - 2) |-> NumeralValue(Field(k + 1, 14, 28))]))

\* a file with two details of different amounts, one of them negative
C20_Witness ==
    /\ pc = "generated"
    /\ bbva.file # None
    /\ bbva.df = <<RowPlain, RowOdd>>
    /\ bbva.bloque # BLOQUE_DEFAULT

(***************************************************************************)
(* The reviewed-leads stores (apps/analisis_leads): ReviewStore keeps the  *)
(* marks in a CSV file, ReviewStoreDB in a table that every mark rewrites. *)
(* A lead id is the identifier the snapshot gives a lead: a non-empty      *)
(* string that read_csv does not take for a missing value.                 *)
(***************************************************************************)
LeadIds == {"101", "102"}
Reviewers == {"BRANDON", "TANIA"}
ClockSamples == {"2026-11-02 10:00:00", "2026-11-02 10:00:01"}

MaxIds == 2
MaxCalls == 2

RECURSIVE ListsOf(_)
ListsOf(n) ==
    IF n = 0 THEN {<<>>}
    ELSE LET of(shorter) ==
                 shorter \cup {Append(l, id) : l \in {s \in shorter : Len(s) = n - 1}, id \in LeadIds}
         IN  of(ListsOf(n - 1))

\* the lists of ids a mark is called with: one id or more, repeats included
IdLists == ListsOf(MaxIds) \ {<<>>}

\* a DataFrame: its columns and its rows, in order
Frame(columns, rows) == [columns |-> columns, rows |-> rows]
EmptyFrame == Frame({}, <<>>)

\* read_csv(dtype=str) turns these fields into NaN
NaStrings == {"", "#N/A", "N/A", "NA", "NULL", "NaN", "None", "n/a", "nan", "null", "<NA>"}
NaN == "<NaN>"
read_field(s) == IF s \in NaStrings THEN NaN ELSE s
\* .astype(str) of a cell read from the file
cell_str(x) == IF x = NaN THEN "nan" ELSE x
\* to_csv writes a missing value as the empty field
to_csv_field(x) == IF x = NaN THEN "" ELSE x

\* safe_read_csv: None for a file that is not there
safe_read_csv(file) ==
    IF ~file.exists THEN Absent
    ELSE Stored([k \in 1..Len(file.rows) |->
                    [lead_id |-> read_field(file.rows[k].lead_id),
                     reviewed_by |-> read_field(file.rows[k].reviewed_by)]])

\* ReviewStore.read_or_empty
read_or_empty(file) ==
    LET of(df) ==
            IF ~df.exists \/ df.rows = <<>> THEN Frame({"lead_id", "reviewed_by"}, <<>>)
            ELSE Frame({"lead_id", "reviewed_by"},
                       SelectSeq([k \in 1..Len(df.rows) |->
                                     [lead_id |-> cell_str(df.rows[k].lead_id),
                                      reviewed_by |-> IF cell_str(df.rows[k].reviewed_by) = "nan" THEN ""
                                                      ELSE cell_str(df.rows[k].reviewed_by)]],
                                 LAMBDA r : r.lead_id # ""))
    IN  of(safe_read_csv(file))

to_csv(rows) ==
    Stored([k \in 1..Len(rows) |->
               [lead_id |-> to_csv_field(rows[k].lead_id), reviewed_by |-> to_csv_field(rows[k].reviewed_by)]])

IdsOf(rows) == {rows[k].lead_id : k \in 1..Len(rows)}

mark_overwrites_all(file, lead_ids, reviewer) ==
    LET of(cur) ==
            to_csv([k \in 1..Len(cur) |-> [cur[k] EXCEPT !.reviewed_by = reviewer]]
                   \o LET missing == SelectSeq(lead_ids, LAMBDA lid : lid \notin IdsOf(cur))
                      IN  [k \in 1..Len(missing) |-> [lead_id |-> missing[k], reviewed_by |-> reviewer]])
    IN  of(read_or_empty(file).rows)

\* ReviewStore.mark: the rows the file holds afterwards
mark(file, lead_ids, reviewer) ==
    LET of(cur) ==
            to_csv([k \in 1..Len(cur) |->
                       IF cur[k].lead_id \in Range(lead_ids)
                       THEN [cur[k] EXCEPT !.reviewed_by = reviewer] ELSE cur[k]]
                   \o LET missing == SelectSeq(lead_ids, LAMBDA lid : cur = <<>> \/ lid \notin IdsOf(cur))
                      IN  [k \in 1..Len(missing) |-> [lead_id |-> missing[k], reviewed_by |-> reviewer]])
    IN  of(read_or_empty(file).rows)

\* ReviewStore.reset
reset == to_csv(<<>>)

\* ReviewStoreDB.read_or_empty: read_sql raises on a table that is not there
db_read_or_empty(table) ==
    IF ~table.exists THEN EmptyFrame
    ELSE Frame({"Lead_id", "revisado", "revisado_por", "fecha_revision"}, table.rows)

\* the first half of ReviewStoreDB.mark: the rows it keeps of what it read
db_kept(df, lead_ids) ==
    IF df.rows = <<>> THEN df.rows
    ELSE SelectSeq(df.rows, LAMBDA r : r.Lead_id \notin Range(lead_ids))

\* the second half: the rows it writes back with to_sql(if_exists='replace')
db_written(kept, lead_ids, user, now) ==
    Stored(kept \o [k \in 1..Len(lead_ids) |->
                       [Lead_id |-> lead_ids[k], revisado |-> 1, revisado_por |-> user,
                        fecha_revision |-> now]])

\* ReviewStoreDB.mark
db_mark(table, lead_ids, user, now) ==
    db_written(db_kept(db_read_or_empty(table), lead_ids), lead_ids, user, now)

\* ReviewStoreDB.reset
db_reset == Stored(<<>>)

\* the leads of the snapshot the page shows
Lead(id, rfc, tipo) == [Lead_id |-> id, rfc |-> rfc, persona_tipo |-> tipo]

\* dict(zip(lead_id, reviewed_by)).get(id): the reviewer of the last row of the id
LastOf(rows, id) ==
    IF id \in IdsOf(rows)
    THEN rows[CHOOSE k \in 1..Len(rows) :
                  rows[k].lead_id = id /\ \A j \in (k + 1)..Len(rows) : rows[j].lead_id # id].reviewed_by
    ELSE "<None>"

\* enrich: reviewed_tbl["lead_id"] raises KeyError on a frame with rows and no such column
enrich(snapshot, reviewed_tbl) ==
    IF reviewed_tbl.rows # <<>> /\ ~({"lead_id", "reviewed_by"} \subseteq reviewed_tbl.columns)
    THEN [raised |-> TRUE, rows |-> <<>>]
    ELSE [raised |-> FALSE,
          rows |-> [k \in 1..Len(snapshot) |->
                       [Lead_id |-> snapshot[k].Lead_id,
                        rfc |-> snapshot[k].rfc,
                        persona_tipo |-> IF Len(snapshot[k].rfc) = 13 THEN "PF"
                                         ELSE IF Len(snapshot[k].rfc) = 12 THEN "PM"
                                         ELSE IF snapshot[k].persona_tipo = "" THEN "NA"
                                         ELSE snapshot[k].persona_tipo,
                        reviewed_by |-> IF reviewed_tbl.rows = <<>> THEN "<None>"
                                        ELSE LastOf(reviewed_tbl.rows, snapshot[k].Lead_id),
                        revisado |-> IF reviewed_tbl.rows # <<>>
                                        /\ snapshot[k].Lead_id \in IdsOf(reviewed_tbl.rows)
                                     THEN 1 ELSE 0]]]

InitReview ==
    /\ pc = "review"
    /\ reviews = [csv |-> Absent, db |-> Absent, calls |-> 0, last |-> NoCall]
    /\ ToolsIdle /\ PageIdle /\ SessionsIdle /\ AuthIdle /\ PagingIdle

\* ReviewStore.mark on the file; the table takes the same call next
Mark ==
    /\ pc = "review"
    /\ reviews.calls < MaxCalls
    /\ \E lead_ids \in IdLists, reviewer \in Reviewers :
          reviews' = [reviews EXCEPT !.csv = mark(reviews.csv, lead_ids, reviewer),
                                     !.last = [op |-> "mark", ids |-> lead_ids, reviewer |-> reviewer]]
    /\ pc' = "replay"
    /\ UNCHANGED besidesReviews

Reset ==
    /\ pc = "review"
    /\ reviews.calls < MaxCalls
    /\ reviews' = [reviews EXCEPT !.csv = reset, !.last = [op |-> "reset", ids |-> <<>>, reviewer |-> ""]]
    /\ pc' = "replay"
    /\ UNCHANGED besidesReviews

MarkDB ==
    /\ pc = "replay"
    /\ reviews.last.op = "mark"
    /\ \E now \in ClockSamples :
          reviews' = [reviews EXCEPT !.db = db_mark(reviews.db, reviews.last.ids, reviews.last.reviewer, now),
                                     !.calls = @ + 1]
    /\ pc' = "review"
    /\ UNCHANGED besidesReviews

ResetDB ==
    /\ pc = "replay"
    /\ reviews.last.op = "reset"
    /\ reviews' = [reviews EXCEPT !.db = db_reset, !.calls = @ + 1]
    /\ pc' = "review"
    /\ UNCHANGED besidesReviews

NextReview == Mark \/ Reset \/ MarkDB \/ ResetDB
SpecReview == InitReview /\ [][NextReview]_vars


\* C21: a mark leaves every id of the call in the file, on rows that all carry
\* the reviewer of the call, and leaves the rows of every other id as they were.
C21_MarkRecordsItsIds ==
    [][(pc = "review" /\ pc' = "replay" /\ reviews'.last.op = "mark") =>
          LET after == reviews'.csv.rows
              before == reviews.csv.rows
              ids == Range(reviews'.last.ids)
          IN  /\ \A id \in ids : \E k \in 1..Len(after) : after[k].lead_id = id
              /\ \A k \in 1..Len(after) :
                    after[k].lead_id \in ids => after[k].reviewed_by = reviews'.last.reviewer
              /\ SelectSeq(after, LAMBDA r : r.lead_id \notin ids)
                    = SelectSeq(before, LAMBDA r : r.lead_id \notin ids)]_vars

\* a mark has updated the row of one lead and left the row of another, which
\* carries the other reviewer
C21_Witness ==
    /\ pc = "replay"
    /\ reviews.last.op = "mark"
    /\ reviews.calls = 1
    /\ \E j, k \in 1..Len(reviews.csv.rows) :
          /\ reviews.csv.rows[j].lead_id \notin Range(reviews.last.ids)
          /\ reviews.csv.rows[k].lead_id \in Range(reviews.last.ids)
          /\ reviews.csv.rows[j].reviewed_by # reviews.csv.rows[k].reviewed_by

\* the leads a store shows as reviewed, with their reviewers
Shown(view) ==
    {<<view.rows[k].Lead_id, view.rows[k].reviewed_by>> :
        k \in {j \in 1..Len(view.rows) : view.rows[j].revisado = 1}}

ReviewSnapshot == <<Lead("101", <<>>, ""), Lead("102", <<>>, ""), Lead("103", <<>>, "")>>

\* C22: after the same calls, enrich raises on neither store's read_or_empty
\* and shows the same leads as reviewed, by the same reviewers.
C22_StoresGiveTheSameView ==
    pc = "review" =>
        LET of(csv_view, db_view) ==
                /\ ~csv_view.raised
                /\ ~db_view.raised
                /\ Shown(csv_view) = Shown(db_view)
        IN  of(enrich(ReviewSnapshot, read_or_empty(reviews.csv)),
               enrich(ReviewSnapshot, db_read_or_empty(reviews.db)))

\* C30: the file holds at most one row per lead id.
C30_OneRowPerLead ==
    \A j, k \in 1..Len(reviews.csv.rows) :
        reviews.csv.rows[j].lead_id = reviews.csv.rows[k].lead_id => j = k

(***************************************************************************)
(* One run of the leads page (apps/analisis_leads/streamlit_app.py): it    *)
(* reads the snapshot and the reviewed table, drops the leads whose RFC is *)
(* in the blocked catalogue and enriches what is left.  The snapshot       *)
(* holds the columns build_snapshot_view passes through unchanged.         *)
(***************************************************************************)
BOM == "U+FEFF"
remove_bom(s) == SelectSeq(s, LAMBDA ch : ch # BOM)

\* str.isalnum(), character by character: the letters with accents and the
\* n with tilde are letters too
IsAlnum(ch) == ch \in AsciiAlnum \cup Range(UpperLetters) \cup Range(LowerLetters)

normalize_rfc(x) ==
    SelectSeq(ToUpper(Strip(remove_bom(x))), LAMBDA ch : ch \in AsciiUpper \cup Digits)

\* the key the page filters the snapshot by
page_key(x) == SelectSeq(ToUpper(x), LAMBDA ch : IsAlnum(ch))

Contains(s, sub) == \E i \in 1..(Len(s) - Len(sub) + 1) : SubSeq(s, i, i + Len(sub) - 1) = sub

\* a cell of the catalogue after read_csv(dtype=str) and astype(str): an empty
\* cell is NaN and reads "nan"
catalogue_cell(c) == IF c = <<>> THEN <<"n", "a", "n">> ELSE c

FirstIndex(P(_), n) == CHOOSE i \in 1..n : P(i) /\ \A j \in 1..(i - 1) : ~P(j)

\* the column load_blocked_rfcs takes the RFCs from
rfc_column(cat) ==
    LET clean(i) == ToLower(Strip(remove_bom(cat.columns[i])))
        n == Len(cat.columns)
        count(i) == Cardinality({k \in 1..Len(cat.rows) : normalize_rfc(catalogue_cell(cat.rows[k][i])) # <<>>})
    IN  IF \E i \in 1..n : clean(i) = <<"r","f","c">>
        THEN FirstIndex(LAMBDA i : clean(i) = <<"r","f","c">>, n)
        ELSE IF \E i \in 1..n : Contains(clean(i), <<"r","f","c">>)
        THEN FirstIndex(LAMBDA i : Contains(clean(i), <<"r","f","c">>), n)
        ELSE FirstIndex(LAMBDA i : \A j \in 1..n : count(j) <= count(i), n)

load_blocked_rfcs(cat) ==
    IF ~cat.exists \/ cat.rows = <<>> THEN {}
    ELSE LET of(idx) == {normalize_rfc(catalogue_cell(cat.rows[k][idx])) : k \in 1..Len(cat.rows)} \ {<<>>}
         IN  of(rfc_column(cat))

\* lines 194-205: the snapshot without the leads whose key is blocked
without_blocked(snapshot, blocked_rfcs) ==
    IF snapshot # <<>> /\ blocked_rfcs # {}
    THEN SelectSeq(snapshot, LAMBDA lead : page_key(lead.rfc) \notin blocked_rfcs)
    ELSE snapshot

RfcPlain == <<"U","P","A","8","0","0","1","0","1","A","A","A">>
RfcTilde == <<"C","A","Ñ","8","5","0","1","0","1","A","B","1">>
LeadSamples ==
    {Lead("101", RfcPlain, ""),
     Lead("102", <<" ","u","p","a","-","8","0","0","1","0","1","-","a","a","a"," ">>, "PM"),
     Lead("103", RfcTilde, ""),
     Lead("104", <<"X","A","X","X","0","1","0","1","0","1","0","0","0">>, "PF"),
     Lead("105", <<>>, "")}

MaxLeads == 2

RECURSIVE SnapshotsOf(_)
SnapshotsOf(n) ==
    IF n = 0 THEN {<<>>}
    ELSE LET of(shorter) ==
                 shorter \cup {Append(s, lead) : s \in {x \in shorter : Len(x) = n - 1}, lead \in LeadSamples}
         IN  of(SnapshotsOf(n - 1))

Catalogue(columns, rows) == [exists |-> TRUE, columns |-> columns, rows |-> rows]
NoCatalogue == [exists |-> FALSE, columns |-> <<>>, rows |-> <<>>]
CatalogueSamples ==
    {NoCatalogue,
     Catalogue(<<<<"r","f","c">>>>, <<>>),
     Catalogue(<<<<"r","f","c">>>>, << <<RfcPlain>>, <<RfcTilde>> >>),
     Catalogue(<<<<"i","d">>, <<"U+FEFF","R","F","C"," ">>>>, << <<<<"1">>, <<" ","u","p","a","8","0","0","1","0","1","a","a","a">>>>, <<<<"2">>, <<>>>> >>),
     Catalogue(<<<<"c","l","a","v","e">>, <<"v","a","l","o","r">>>>, << <<<<>>, RfcPlain>> >>)}

TableSamples ==
    {Absent,
     Stored(<<[Lead_id |-> "104", revisado |-> 1, revisado_por |-> "TANIA",
               fecha_revision |-> "2026-11-02 10:00:00"]>>)}

InitPage ==
    /\ pc = "page"
    /\ \E snapshot \in SnapshotsOf(MaxLeads), cat \in CatalogueSamples, table \in TableSamples :
          page = [snapshot |-> snapshot, catalogue |-> cat, table |-> table,
                  view |-> [raised |-> FALSE, rows |-> <<>>]]
    /\ ToolsIdle /\ ReviewsIdle /\ SessionsIdle /\ AuthIdle /\ PagingIdle

\* the run of the script down to enrich; the tabs are selections of its rows
RunPage ==
    /\ pc = "page"
    /\ page' = [page EXCEPT !.view = enrich(without_blocked(page.snapshot, load_blocked_rfcs(page.catalogue)),
                                            db_read_or_empty(page.table))]
    /\ pc' = "shown"
    /\ UNCHANGED besidesPage

NextPage == RunPage
SpecPage == InitPage /\ [][NextPage]_vars

\* C23: no row of the enriched view has an RFC that, normalised to A-Z and 0-9,
\* is in the blocked catalogue.
C23_BlockedLeadsHidden ==
    pc = "shown" =>
        \A k \in 1..Len(page.view.rows) :
            normalize_rfc(page.view.rows[k].rfc) \notin load_blocked_rfcs(page.catalogue)

(***************************************************************************)
(* The login (simple_auth.py, the page wrappers, and require_login of      *)
(* apps/analisis_leads/streamlit_app.py).  A browser session has one       *)
(* st.session_state; every action is one run of a script in that session,  *)
(* with the widget values of that run.                                     *)
(***************************************************************************)
NoUsers == [u \in {} |-> ""]
\* _get_user_table(): nothing configured, or a table in which Juan has no password
UserTables == {NoUsers, ("Carlos" :> "s3cret") @@ ("Juan" :> "")}
RoleTable == ("Carlos" :> "admin")

Usernames == {"", "Carlos", "Juan", "Eve"}
\* the last password is not ASCII
Passwords == {"", "s3cret", "guess", "contraseña"}
NonAscii == {"contraseña"}

\* the scripts that call require_shared_password before anything else
GatedPages == {"app", "01_Lector_CSF", "04_Factoraje", "05_Lector_edocat"}
ToolPages == GatedPages \ {"app"}

FreshSession == [auth_ok |-> "absent", auth_user |-> "absent", auth_role |-> "absent"]
NoLogin == [pressed |-> FALSE, username |-> "", pw |-> ""]
NoBody == [page |-> "none", auth_ok |-> "absent"]

dict_get(d, k, default) == IF k \in DOMAIN d THEN d[k] ELSE default

\* hmac.compare_digest of two str: TypeError unless both are ASCII
compare_digest(a, b) ==
    IF a \in NonAscii \/ b \in NonAscii THEN "TypeError" ELSE IF a = b THEN "True" ELSE "False"

\* require_shared_password: the session state it leaves and whether the script goes on
require_shared_password(session, users, roles, username, pw, login) ==
    IF session.auth_ok = "True" THEN [session |-> session, goes_on |-> TRUE]
    ELSE IF DOMAIN users = {} THEN [session |-> session, goes_on |-> FALSE]
    ELSE IF login /\ dict_get(users, username, "") # "" /\ pw # ""
            /\ compare_digest(dict_get(users, username, ""), pw) = "True"
    THEN [session |-> [auth_ok |-> "True", auth_user |-> username,
                       auth_role |-> dict_get(roles, username, "user")],
          goes_on |-> FALSE]
    ELSE [session |-> session, goes_on |-> FALSE]

\* require_login of the leads app, with the environment of the process
require_login(session, env, user, pwd, entrar, verified) ==
    IF env.SKIP_INTERNAL_AUTH
    THEN [session |-> [session EXCEPT
                          !.auth_ok = IF @ = "absent" THEN "True" ELSE @,
                          !.auth_user = IF @ \in {"absent", "None", ""} THEN "Carlos" ELSE @],
          goes_on |-> TRUE]
    ELSE IF env.REQUIRE_R_AUTH /\ ~env.r_ok THEN [session |-> session, goes_on |-> FALSE]
    ELSE LET of(s) ==
                 IF s.auth_ok = "True" THEN [session |-> s, goes_on |-> TRUE]
                 ELSE IF entrar /\ user # "" /\ pwd # "" /\ (IF env.r_ok THEN verified ELSE TRUE)
                 THEN [session |-> [s EXCEPT !.auth_ok = "True", !.auth_user = user], goes_on |-> FALSE]
                 ELSE [session |-> s, goes_on |-> FALSE]
         IN  of(IF session.auth_ok = "absent"
                THEN [session EXCEPT !.auth_ok = "False", !.auth_user = "None"]
                ELSE session)

Environments ==
    [SKIP_INTERNAL_AUTH : BOOLEAN, EMBEDDED : BOOLEAN, REQUIRE_R_AUTH : BOOLEAN, r_ok : BOOLEAN]

InitAuth ==
    /\ pc = "session"
    /\ \E users \in UserTables, env \in Environments :
          auth = [users |-> users, env |-> env, session |-> FreshSession,
                  login |-> NoLogin, body |-> NoBody]
    /\ ToolsIdle /\ ReviewsIdle /\ PageIdle /\ SessionsIdle /\ PagingIdle

\* one run of the home script or of a page wrapper: the login, then the tool
RunGatedPage(p) ==
    /\ pc = "session"
    /\ \E username \in Usernames, pw \in Passwords, login \in BOOLEAN :
          LET of(r) ==
                  auth' = [auth EXCEPT
                              !.session = r.session,
                              !.login = IF auth.session.auth_ok # "True" /\ DOMAIN auth.users # {} /\ login
                                        THEN [pressed |-> TRUE, username |-> username, pw |-> pw]
                                        ELSE NoLogin,
                              !.body = IF r.goes_on THEN [page |-> p, auth_ok |-> r.session.auth_ok]
                                       ELSE NoBody]
          IN  of(require_shared_password(auth.session, auth.users, RoleTable, username, pw, login))
    /\ UNCHANGED <<pc, besidesAuth>>

\* one run of the leads script: require_login, the logout button, the page
RunLeads ==
    /\ pc = "session"
    /\ \E user \in Usernames, pwd \in Passwords, entrar \in BOOLEAN, verified \in BOOLEAN,
          logout \in BOOLEAN :
          LET of(r) ==
                  auth' = [auth EXCEPT
                              !.session = IF r.goes_on /\ ~auth.env.EMBEDDED /\ logout
                                          THEN [r.session EXCEPT !.auth_ok = "False", !.auth_user = "None"]
                                          ELSE r.session,
                              !.login = IF ~auth.env.SKIP_INTERNAL_AUTH /\ auth.session.auth_ok # "True" /\ entrar
                                           /\ ~(auth.env.REQUIRE_R_AUTH /\ ~auth.env.r_ok)
                                        THEN [pressed |-> TRUE, username |-> user, pw |-> pwd]
                                        ELSE NoLogin,
                              !.body = IF r.goes_on /\ ~(~auth.env.EMBEDDED /\ logout)
                                       THEN [page |-> "analisis_leads", auth_ok |-> r.session.auth_ok]
                                       ELSE NoBody]
          IN  of(require_login(auth.session, auth.env, user, pwd, entrar, verified))
    /\ UNCHANGED <<pc, besidesAuth>>

NextAuth == (\E p \in GatedPages : RunGatedPage(p)) \/ RunLeads
SpecAuth == InitAuth /\ [][NextAuth]_vars

\* the runs of the home script and of the page wrappers alone
NextGated == \E p \in GatedPages : RunGatedPage(p)
SpecGated == InitAuth /\ [][NextGated]_vars

\* the step is a login with the configured, non-empty password of the user
GoodLogin ==
    /\ auth'.login.pressed
    /\ dict_get(auth.users, auth'.login.username, "") # ""
    /\ auth'.login.pw = dict_get(auth.users, auth'.login.username, "")

\* C24: auth_ok becomes true only by a login with the configured, non-empty
\* password of the entered user; once true it stays true; and a tool's body
\* runs only with auth_ok true.
C24_LoginGatesTheTools ==
    [][/\ (auth.session.auth_ok # "True" /\ auth'.session.auth_ok = "True") => GoodLogin
       /\ auth.session.auth_ok = "True" => auth'.session.auth_ok = "True"
       /\ auth'.body.page \in ToolPages \cup {"analisis_leads"} => auth'.body.auth_ok = "True"]_vars

(***************************************************************************)
(* Two sessions of the leads page on the same table.  Each runs            *)
(* ReviewStoreDB.mark from a button: it reads the whole table, and later   *)
(* replaces the table by what it read, less the rows of its ids, plus its  *)
(* new rows.  Nothing holds the table between the two steps.               *)
(***************************************************************************)
Sessions == {1, 2}

\* the table before the two clicks: not created yet, empty, or holding a mark
SessionTables ==
    {Absent, Stored(<<>>),
     Stored(<<[Lead_id |-> "101", revisado |-> 1, revisado_por |-> "TANIA",
               fecha_revision |-> "2026-11-01 09:00:00"]>>)}

\* the rows selected in the two sessions: lists of ids with no id in common
Selections ==
    {sel \in [Sessions -> IdLists] : Range(sel[1]) \cap Range(sel[2]) = {}}

InitSessions ==
    /\ pc = "sessions"
    /\ \E table \in SessionTables, sel \in Selections, user \in [Sessions -> Reviewers] :
          sessions = [table |-> table, ids |-> sel, user |-> user,
                      at |-> [s \in Sessions |-> "click"],
                      df |-> [s \in Sessions |-> EmptyFrame]]
    /\ ToolsIdle /\ ReviewsIdle /\ PageIdle /\ AuthIdle /\ PagingIdle

\* df = self.read_or_empty()
SessionRead(s) ==
    /\ pc = "sessions"
    /\ sessions.at[s] = "click"
    /\ sessions' = [sessions EXCEPT !.df[s] = db_read_or_empty(sessions.table),
                                    !.at[s] = "read"]
    /\ UNCHANGED pc
    /\ UNCHANGED besidesSessions

\* the rest of mark: the rows of the ids are dropped from what was read, the new
\* rows are appended, and to_sql(if_exists='replace') replaces the table
SessionWrite(s) ==
    /\ pc = "sessions"
    /\ sessions.at[s] = "read"
    /\ \E now \in ClockSamples :
          sessions' = [sessions EXCEPT
                          !.table = db_written(db_kept(sessions.df[s], sessions.ids[s]),
                                               sessions.ids[s], sessions.user[s], now),
                          !.at[s] = "done"]
    /\ UNCHANGED pc
    /\ UNCHANGED besidesSessions

NextSessions == \E s \in Sessions : SessionRead(s) \/ SessionWrite(s)
SpecSessions == InitSessions /\ [][NextSessions]_vars

\* the table holds the marks of session s
MarksHeld(s) ==
    \A id \in Range(sessions.ids[s]) :
        \E k \in 1..Len(sessions.table.rows) :
            /\ sessions.table.rows[k].Lead_id = id
            /\ sessions.table.rows[k].revisado_por = sessions.user[s]

\* C28: when two sessions run ReviewStoreDB.mark on disjoint sets of lead ids
\* with their read and write steps interleaved in any order, the table holds
\* the marks of every session that has completed its mark: no completed mark
\* is lost.
C28_NoMarkLost ==
    pc = "sessions" => \A s \in Sessions : sessions.at[s] = "done" => MarksHeld(s)

(***************************************************************************)
(* The paged listing of invoices (apps/factoraje): list_invoices_headers_api *)
(* and syntage_list_invoices_ids run the same loop, one request per page,  *)
(* and differ in what they return.  The service's reply to each request is *)
(* chosen freely: the request raises, the status is not 2xx, the body is   *)
(* not JSON, the body is JSON but not an object (j.get then raises, and    *)
(* nothing catches it), or the body holds the rows of hydra:member (none,  *)
(* or some).                                                               *)
(***************************************************************************)
MaxPages == 3
PageSizes == {1, 2}
ListingFunctions == {"list_invoices_headers_api", "syntage_list_invoices_ids"}
ListingRfc == <<"A","A","A","0","1","0","1","0","1","A","A","A">>

\* the entries a page may hold: two invoices with an id, one without
PageEntries == {SupplierInvoice, CreditNote, Unidentified}
PageRows == {<<>>} \cup {<<a>> : a \in PageEntries} \cup {<<a, b>> : a, b \in PageEntries}

PageReply(kind, status, rows) == [kind |-> kind, status |-> status, rows |-> rows]
PageReplies ==
    {PageReply("error", NoInt, <<>>), PageReply("status", 500, <<>>),
     PageReply("badjson", 200, <<>>), PageReply("notobject", 200, <<>>)}
    \cup {PageReply("ok", 200, rows) : rows \in PageRows}

\* the id-ish field of an entry, as a string, when it has one that is not blank
HasId(x) == x.uuid # None /\ Strip(x.uuid) # <<>>

\* a slip that takes the first id of the page
page_token_first(rows) ==
    LET of(last_ids) == IF last_ids = <<>> THEN None ELSE last_ids[1].uuid
    IN  of(SelectSeq(rows, HasId))

\* last_ids[-1]: the id of the last entry of the page that has one, or None
page_token(rows) ==
    LET of(last_ids) == IF last_ids = <<>> THEN None ELSE last_ids[Len(last_ids)].uuid
    IN  of(SelectSeq(rows, HasId))

\* the URL the monitor records: url0, or resp.url with the id[lt] of the request
ListingUrl(id_lt) == <<"/invoices">> \o (IF id_lt = None THEN <<>> ELSE <<"?id[lt]=">> \o id_lt)

\* what the function returns from the entries it has gathered
Delivered(fn, acc) ==
    IF fn = "list_invoices_headers_api" THEN list_invoices_headers_api(acc, ListingRfc) ELSE acc

\* one turn of the loop on the reply to its request: the request is recorded,
\* the rows are gathered, and the loop is left on an error, a status that is
\* not 2xx, a body that is not JSON, no rows, no id, a short page, or when
\* max_pages requests have been made; leaving the loop returns, except that a
\* body that is JSON but no object makes j.get raise out of the function
fetch_page(p, reply) ==
    LET got_rows == reply.kind = "ok" /\ reply.rows # <<>>
        acc == IF got_rows THEN p.acc \o reply.rows ELSE p.acc
        token == IF got_rows THEN page_token(reply.rows) ELSE None
        raises == reply.kind = "notobject"
        leave == \/ ~got_rows
                 \/ token = None
                 \/ Len(reply.rows) < p.per_page
                 \/ Len(p.sent) + 1 = p.max_pages
    IN  [p EXCEPT !.sent = Append(@, p.next_id_lt),
                  !.got = Append(@, reply),
                  !.acc = acc,
                  !.next_id_lt = IF token = None THEN @ ELSE token,
                  !.at = IF raises THEN "raised" ELSE IF leave THEN "returned" ELSE "loop",
                  !.result = IF leave /\ ~raises THEN Delivered(p.fn, acc) ELSE <<>>]

InitPaging ==
    /\ pc = "paging"
    /\ \E fn \in ListingFunctions, max_pages \in 1..MaxPages, per_page \in PageSizes :
          paging = [fn |-> fn, max_pages |-> max_pages, per_page |-> per_page,
                    sent |-> <<>>, got |-> <<>>, acc |-> <<>>, next_id_lt |-> None,
                    at |-> "loop", result |-> <<>>]
    /\ ToolsIdle /\ ReviewsIdle /\ PageIdle /\ SessionsIdle /\ AuthIdle

\* sess.get(url0, params=qs, timeout=35) and the rest of the turn
FetchPage ==
    /\ pc = "paging"
    /\ paging.at = "loop"
    /\ \E reply \in PageReplies :
          /\ paging' = fetch_page(paging, reply)
          /\ _api_mon' = IF reply.kind = "error"
                         THEN [last_ok |-> FALSE, last_status |-> NoInt, last_url |-> ListingUrl(None)]
                         ELSE [last_ok |-> TRUE, last_status |-> reply.status,
                               last_url |-> ListingUrl(paging.next_id_lt)]
    /\ UNCHANGED pc
    /\ UNCHANGED <<parserVars, matcherVars, batchVars, contractVars, applied, report, xmls,
                   bbva, reviews, page, sessions, auth>>

NextPaging == FetchPage
SpecPaging == InitPaging /\ [][NextPaging]_vars

\* the id of the last entry of a page that has an id
LastIdOn(rows) ==
    IF \E k \in 1..Len(rows) : HasId(rows[k])
    THEN rows[CHOOSE k \in 1..Len(rows) :
                  HasId(rows[k]) /\ \A j \in (k + 1)..Len(rows) : ~HasId(rows[j])].uuid
    ELSE None

\* the rows of the first n pages, in order
RECURSIVE RowsOfPages(_, _)
RowsOfPages(got, n) == IF n = 0 THEN <<>> ELSE RowsOfPages(got, n - 1) \o got[n].rows

FailedReply(reply) == reply.kind \in {"error", "status", "badjson"}

\* C29: list_invoices_headers_api and syntage_list_invoices_ids make at most
\* max_pages page requests and have returned once max_pages requests are made;
\* every page after the first is requested with id[lt] set to the last id of
\* the page before; and a request error, a status that is not 2xx or a body
\* that is not JSON ends the loop and returns what the rows of the pages
\* fetched before give.
C29_PagingBounded ==
    pc = "paging" =>
        LET n == Len(paging.sent) IN
        /\ n <= paging.max_pages
        /\ (n = paging.max_pages => paging.at # "loop")
        /\ Len(paging.got) = n
        /\ (n >= 1 => paging.sent[1] = None)
        /\ \A k \in 2..n : paging.sent[k] # None /\ paging.sent[k] = LastIdOn(paging.got[k - 1].rows)
        /\ (n >= 1 /\ FailedReply(paging.got[n]))
              => /\ paging.at = "returned"
                 /\ paging.result = Delivered(paging.fn, RowsOfPages(paging.got, n - 1))

\* the third request failed after two full pages whose last entries differ
C29_Witness ==
    /\ pc = "paging"
    /\ paging.at = "returned"
    /\ Len(paging.sent) = 3
    /\ paging.got[3].kind = "error"
    /\ paging.sent[3] # paging.sent[2]
    /\ Len(paging.got[2].rows) = 2
    /\ page_token_first(paging.got[2].rows) # page_token(paging.got[2].rows)
    /\ paging.result # <<>>

(***************************************************************************)
(* Further properties of the parsers, the BBVA file and the matcher.       *)
(***************************************************************************)
PersonTypes == {Fisica, Moral, Desconocido}

\* C25: for any non-empty document text, parse_csf_fields and parse_cfdi_fields
\* return, without raising, a person type and a record with exactly the
\* TARGET_COLS keys, and a field whose extraction fails is left absent without
\* preventing the extraction of the other fields: the RFC, the CURP and (for a
\* CSF that is not of a legal person) the first surname the text holds are in
\* the record whatever else the text lacks.
C25_FieldsExtractedIndependently ==
    pc \in {"csf", "cfdi"} =>
        /\ parsed.tipo \in PersonTypes
        /\ DOMAIN parsed.row = TargetColSet
        /\ (MatchRfcPattern(doc.rfc_at) # None => parsed.row["RFC"] # None)
        /\ (safe_nzchar(doc.curp) => parsed.row["curp"] # None)
        /\ (pc = "csf" /\ parsed.tipo # Moral /\ safe_nzchar(doc.ap1)
                => parsed.row["last_name"] # None)

\* the date the records carry has the eight characters of strftime("%Y%m%d")
\* when the date box is blank, and the characters of the box otherwise
FechaLen == IF Strip(bbva.fecha) = <<>> THEN 8 ELSE Len(bbva.fecha)
\* the first column of the reference number of a detail: it follows the two
\* copies of the date and 214 columns of fixed width
RefColumn == 215 + 2 * FechaLen
\* the width of the reference number of a detail
RefWidth == 7
RefModulus == 10 ^ RefWidth

C27_UnknownTipoGivesNone ==
    (IsMatch(last) /\ ValidInputs(last) /\ ~KnownTipo(last)) => last.result = None

=============================================================================
